---- MODULE Spec2Model ----
(***************************************************************************)
(* Ledger and lifecycle engine of the tutoring marketplace                 *)
(* (src/app/api/v1/education.py, src/app/models/education.py,              *)
(* src/app/services/payments.py).                                          *)
(*                                                                         *)
(* The store is a PostgreSQL database reached through SQLAlchemy sessions  *)
(* (src/app/db/session.py: one AsyncSession per request, autoflush on,     *)
(* expire_on_commit off, READ COMMITTED).  The committed tables are the    *)
(* variables payments, topups, subs, wallet_ledger, teacher_wallet_ledger, *)
(* balances and withdrawals.  A request in flight keeps its uncommitted    *)
(* work in req[r]: the ORM objects it loaded (row/base), the rows it has   *)
(* added (pendTL, pendWL) and the row locks its flushed UPDATEs hold       *)
(* (locks[r]).  A commit applies that work to the tables in one step; an   *)
(* error or an interruption discards it (the session closes, the           *)
(* transaction rolls back).                                                *)
(***************************************************************************)
EXTENDS Integers, Sequences, FiniteSets, TLC

(* ------------------------------ bounds -------------------------------- *)
MaxPayments == 2
MaxTopups == 1
MaxWithdrawals == 2
MaxLedgerRows == 3
MaxClock == 3
MaxLegacyCents == 45
MaxSessions == 1

(* --------------------------- program values --------------------------- *)
None == "<None>"
Students == {"s1"}
Teachers == {"t1"}
Admins == {"adm"}
Users == Students \cup Teachers \cup Admins
Guests == {"s2"}  \* a second student, known to the session handlers only

Slots == {1, 2}

POINTS_PER_SESSION == 5
DEFAULT_BALANCE == 500
CENTS_PER_POINT == 100
DAYS_PER_MONTH == 30
MIN_WITHDRAW_CENTS == 100
MAX_WITHDRAW_CENTS == 100000000
LIVE_LEAD_MINUTES == 10
DEFAULT_DURATION_MINUTES == 60

ProviderAnswers == {"paid", "pending", "error"}

VARIABLES
  payments,               \* payment_transactions, id = index
  topups,                 \* wallet_topup_transactions, id = index
  subs,                   \* teacher_student_subscriptions, id = index
  wallet_ledger,          \* wallet_ledger rows in insertion order
  teacher_wallet_ledger,  \* teacher_wallet_ledger rows in insertion order
  balances,               \* student_balances: user -> <<balance>>, or <<>> without a row
  withdrawals,            \* teacher_withdrawal_requests, id = index
  clock,                  \* wall clock read by _utc_now()
  req,                    \* per request slot: handler position and session state
  locks,                  \* per request slot: rows its open transaction has locked
  resp,                   \* the response to the latest request, once sent
  hist,                   \* per payment the first and the latest successful confirm;
                          \* the payments whose confirm died after the first commit
  settings,               \* app.core.config.settings: which providers are configured,
                          \* and live_session_cleanup_minutes
  sessions,               \* teacher_sessions, id = index; a deleted row has present = FALSE
  utc_now,                \* _utc_now() as the session handlers read it, in minutes
  published               \* the ws_manager.publish calls of the latest session request

vars == <<payments, topups, subs, wallet_ledger, teacher_wallet_ledger, balances,
          withdrawals, clock, req, locks, resp, hist, settings, sessions, utc_now, published>>

db == <<payments, topups, subs, wallet_ledger, teacher_wallet_ledger, balances, withdrawals>>

live == <<sessions, utc_now, published>>

(* ------------------------------ helpers ------------------------------- *)
Max(a, b) == IF a >= b THEN a ELSE b

\* Python truthiness of an optional string: None and "" are both false.
Truthy(x) == x /= None /\ x /= ""

SelectIdx(s, P(_)) == {i \in DOMAIN s : P(s[i])}

\* str(int) as the handlers use it for reference_id
Str(n) == ToString(n)

calc_points_cost_per_month(months, sessions_per_month) == months * POINTS_PER_SESSION
calc_points_cost(months, sessions_per_month) == months * sessions_per_month * POINTS_PER_SESSION

\* the largest power of two that is at most n, for n >= 1
RECURSIVE Pow2Floor(_)
Pow2Floor(n) == IF n < 2 THEN 1 ELSE 2 * Pow2Floor(n \div 2)

\* int(round(int(amount_cents) * 0.7)), fee = max(amount - earnings, 0), for
\* amount_cents >= 0.  0.7 is the double just below 7/10, so the product lies below
\* 7 * amount / 10 by amount / (5 * 2^52) before it is rounded to a double.  That
\* only matters when 7 * amount / 10 is a half q + 0.5: the double product is that
\* half when 2 * amount <= 5 * 2^floor(log2 q), and round() then takes the even
\* neighbour; otherwise the product is below the half and round() gives q.
calc_teacher_earnings_cents_truncated(amount_cents) ==
  <<(7 * amount_cents) \div 10, amount_cents - (7 * amount_cents) \div 10>>
calc_teacher_earnings_cents(amount_cents) ==
  LET q == (7 * amount_cents) \div 10
      m == (7 * amount_cents) % 10
      half == m = 5 /\ 2 * amount_cents <= 5 * Pow2Floor(q)
      earnings == IF m > 5 \/ (half /\ q % 2 = 1) THEN q + 1 ELSE q
      fee == Max(amount_cents - earnings, 0)
  IN <<earnings, fee>>

points_from_cents_ceiling(amount_cents) == Max((amount_cents + 99) \div CENTS_PER_POINT, 0)
points_from_cents(amount_cents) == Max(amount_cents \div CENTS_PER_POINT, 0)

(* --------------------------- ledger store ----------------------------- *)
WalletKeyMatch(row, a) ==
  /\ row.student_user_id = a.student_user_id
  /\ row.direction = a.direction
  /\ row.source = a.source
  /\ row.reference_type = a.reference_type
  /\ row.reference_id = a.reference_id

TeacherKeyMatch(row, a) ==
  /\ row.teacher_user_id = a.teacher_user_id
  /\ row.direction = a.direction
  /\ row.source = a.source
  /\ row.reference_type = a.reference_type
  /\ row.reference_id = a.reference_id

\* The rows _record_wallet_ledger adds to the session, given the rows `view`
\* its SELECT sees: none when the idempotence guard finds the key.
record_wallet_ledger_always(view, a) ==
  << [student_user_id |-> a.student_user_id, direction |-> a.direction,
      amount_cents |-> Max(a.amount_cents, 0), points_delta |-> a.points_delta,
      source |-> a.source, reference_type |-> a.reference_type,
      reference_id |-> a.reference_id] >>

record_wallet_ledger(view, a) ==
  IF /\ Truthy(a.reference_type) /\ Truthy(a.reference_id)
     /\ SelectIdx(view, LAMBDA row : WalletKeyMatch(row, a)) /= {}
  THEN <<>>
  ELSE << [student_user_id |-> a.student_user_id, direction |-> a.direction,
           amount_cents |-> Max(a.amount_cents, 0), points_delta |-> a.points_delta,
           source |-> a.source, reference_type |-> a.reference_type,
           reference_id |-> a.reference_id] >>

record_teacher_wallet_ledger_always(view, a) ==
  << [teacher_user_id |-> a.teacher_user_id, direction |-> a.direction,
      amount_cents |-> Max(a.amount_cents, 0), source |-> a.source,
      reference_type |-> a.reference_type, reference_id |-> a.reference_id] >>

record_teacher_wallet_ledger(view, a) ==
  IF /\ Truthy(a.reference_type) /\ Truthy(a.reference_id)
     /\ SelectIdx(view, LAMBDA row : TeacherKeyMatch(row, a)) /= {}
  THEN <<>>
  ELSE << [teacher_user_id |-> a.teacher_user_id, direction |-> a.direction,
           amount_cents |-> Max(a.amount_cents, 0), source |-> a.source,
           reference_type |-> a.reference_type, reference_id |-> a.reference_id] >>

\* scalar_one_or_none() raises MultipleResultsFound when the key matches twice.
WalletLookupRaises(view, a) ==
  /\ Truthy(a.reference_type) /\ Truthy(a.reference_id)
  /\ Cardinality(SelectIdx(view, LAMBDA row : WalletKeyMatch(row, a))) > 1

TeacherLookupRaises(view, a) ==
  /\ Truthy(a.reference_type) /\ Truthy(a.reference_id)
  /\ Cardinality(SelectIdx(view, LAMBDA row : TeacherKeyMatch(row, a))) > 1

\* coalesce(sum(case direction = 'credit' then amount_cents else -amount_cents), 0)
RECURSIVE teacher_wallet_net_cents(_, _)
teacher_wallet_net_cents(ledger, teacher_user_id) ==
  IF ledger = <<>> THEN 0
  ELSE LET row == Head(ledger)
           signed == IF row.teacher_user_id /= teacher_user_id THEN 0
                     ELSE IF row.direction = "credit" THEN row.amount_cents
                     ELSE 0 - row.amount_cents
       IN signed + teacher_wallet_net_cents(Tail(ledger), teacher_user_id)

(* ------------------------- session machinery -------------------------- *)
NoRow == [id |-> 0]

IdleReq ==
  [op |-> "idle", pc |-> "idle", pid |-> 0, row |-> NoRow, base |-> NoRow,
   sub |-> 0, answer |-> None, pendTL |-> <<>>, pendWL |-> <<>>, pendSub |-> <<>>,
   teacher |-> None, student |-> None, months |-> 0, sessions_per_month |-> 0,
   charge |-> FALSE, bal |-> 0, balBase |-> 0, pendWd |-> <<>>, amount_cents |-> 0,
   method |-> None, new_status |-> None, args |-> None, actor |-> None,
   admin_note |-> None, external_ref |-> None]

NoResp == [code |-> 0, sub |-> 0, answer |-> None]

is_admin_or_teacher(actor) == actor \in Admins \cup Teachers
is_admin(actor) == actor \in Admins
is_teacher(actor) == actor \in Teachers \cup Admins  \* _BASE_TEACHER_ROLE_ALIASES holds "administrator"
is_student(actor) == actor \in Students \cup Guests

ensure_self_or_admin(actor, target) == actor = target \/ is_admin(actor)
ensure_teacher_owner_or_admin(actor, teacher) ==
  is_admin(actor) \/ (actor = teacher /\ is_teacher(actor))

\* What a SELECT of request r sees: the committed rows and the rows its own
\* transaction has flushed (autoflush runs before every SELECT).
ViewTL(r) == teacher_wallet_ledger \o req[r].pendTL
ViewWL(r) == wallet_ledger \o req[r].pendWL

\* The ORM object differs from what the session loaded: a flush emits an UPDATE
\* of the changed columns, which takes the row lock until commit or rollback.
Dirty(r) == req[r].row /= req[r].base
BalDirty(r) == req[r].bal /= req[r].balBase
TableOf(op) ==
  CASE op = "confirm" -> "payment_transactions"
    [] op = "topup_confirm" -> "wallet_topup_transactions"
    [] op = "withdraw_update" -> "teacher_withdrawal_requests"
    [] OTHER -> "none"
RowKey(r) == <<TableOf(req[r].op), req[r].pid>>
BalKey(r) == <<"student_balances", req[r].student>>
DirtyKeys(r) == (IF Dirty(r) THEN {RowKey(r)} ELSE {}) \cup
                (IF BalDirty(r) THEN {BalKey(r)} ELSE {})
LockFree(r) == \A o \in Slots \ {r} : RowKey(r) \notin locks[o]
CanFlush_without_row_locks(r) == TRUE
CanFlush(r) == \A o \in Slots \ {r} : locks[o] \cap DirtyKeys(r) = {}
Flushed(r) == locks[r] \cup DirtyKeys(r)

\* UPDATE ... SET <changed columns> WHERE id = pid
Merge(committed, row, base) ==
  [f \in DOMAIN committed |-> IF row[f] /= base[f] THEN row[f] ELSE committed[f]]

active_subscription_none(teacher_user_id, student_user_id) == {}
active_subscription(teacher_user_id, student_user_id) ==
  {i \in DOMAIN subs : /\ subs[i].teacher_user_id = teacher_user_id
                       /\ subs[i].student_user_id = student_user_id
                       /\ subs[i].status = "active"}

Finish(r, out) ==
  /\ req' = [req EXCEPT ![r] = IdleReq]
  /\ locks' = [locks EXCEPT ![r] = {}]
  /\ resp' = out

\* A request enters the handler with session state q; no response is out yet.
Begin(r, q) ==
  /\ req' = [req EXCEPT ![r] = q]
  /\ resp' = NoResp
  /\ UNCHANGED <<db, clock, locks, hist, settings, live>>

Reply(r, code, sub, answer) ==
  Finish(r, [code |-> code, sub |-> sub, answer |-> answer])

\* An HTTPException or any other error leaves the handler: get_db closes the
\* session and the open transaction is rolled back.
FailWith(r, code, answer) ==
  /\ Finish(r, [code |-> code, sub |-> 0, answer |-> answer])
  /\ UNCHANGED <<db, clock, hist, settings, live>>

Fail(r, code) == FailWith(r, code, req[r].answer)

(* ------------------------------ commit -------------------------------- *)
CommittedPayments_left_behind(r) == payments
CommittedPayments(r) ==
  IF TableOf(req[r].op) = "payment_transactions" /\ req[r].pid \in DOMAIN payments
  THEN [payments EXCEPT ![req[r].pid] = Merge(@, req[r].row, req[r].base)]
  ELSE payments

CommittedTopups(r) ==
  IF TableOf(req[r].op) = "wallet_topup_transactions" /\ req[r].pid \in DOMAIN topups
  THEN [topups EXCEPT ![req[r].pid] = Merge(@, req[r].row, req[r].base)]
  ELSE topups

CommittedWithdrawals(r) ==
  IF TableOf(req[r].op) = "teacher_withdrawal_requests" /\ req[r].pid \in DOMAIN withdrawals
  THEN [withdrawals EXCEPT ![req[r].pid] = Merge(@, req[r].row, req[r].base)]
  ELSE withdrawals

\* UPDATE student_balances SET balance = <the value computed in Python>
CommittedBalances(r) ==
  IF req[r].bal /= req[r].balBase
  THEN [balances EXCEPT ![req[r].student] = <<req[r].bal>>]
  ELSE balances

\* db.commit(): the pending INSERTs and UPDATEs of the session reach the tables.
ApplyCommit(r) ==
  /\ payments' = CommittedPayments(r)
  /\ topups' = CommittedTopups(r)
  /\ withdrawals' = CommittedWithdrawals(r) \o req[r].pendWd
  /\ subs' = subs \o req[r].pendSub
  /\ teacher_wallet_ledger' = teacher_wallet_ledger \o req[r].pendTL
  /\ wallet_ledger' = wallet_ledger \o req[r].pendWL
  /\ balances' = CommittedBalances(r)

AfterCommit(q) ==
  [q EXCEPT !.base = q.row, !.balBase = q.bal,
            !.pendTL = <<>>, !.pendWL = <<>>, !.pendSub = <<>>, !.pendWd = <<>>]

(* ------------------------------- Init ---------------------------------- *)
\* PayPal configured, Stripe not; LIVE_SESSION_CLEANUP_MINUTES at its default
DefaultSettings ==
  [has_stripe |-> FALSE, has_paypal |-> TRUE, live_session_cleanup_minutes |-> 0]

NoSessions == sessions = <<>> /\ utc_now = 0 /\ published = <<>>

InitDb ==
  /\ payments = <<>>
  /\ topups = <<>>
  /\ subs = <<>>
  /\ wallet_ledger = <<>>
  /\ teacher_wallet_ledger = <<>>
  /\ balances = [u \in Users |-> <<>>]
  /\ withdrawals = <<>>
  /\ clock = 0
  /\ req = [r \in Slots |-> IdleReq]
  /\ locks = [r \in Slots |-> {}]
  /\ resp = NoResp
  /\ hist = [confirmed |-> [p \in 1..MaxPayments |-> <<>>], midCrash |-> {}, payouts |-> {}]

Init ==
  /\ InitDb
  /\ settings = DefaultSettings /\ NoSessions

(* -------------------- create_subscription_checkout --------------------- *)
Plans == {<<3, 8>>}
SelectedProviders == {"auto", "mock", "stripe", "paypal"}

resolve_provider_mock_on_auto(selected_provider) ==
  IF selected_provider \in {"stripe", "paypal"} THEN selected_provider ELSE "mock"

\* provider resolution: "auto" picks paypal, then stripe, then mock
resolve_provider(selected_provider) ==
  IF selected_provider = "auto"
  THEN IF settings.has_paypal THEN "paypal"
       ELSE IF settings.has_stripe THEN "stripe" ELSE "mock"
  ELSE IF selected_provider \in {"stripe", "paypal"} THEN selected_provider
  ELSE "mock"

NewPayment(student, teacher, months, spm, amount_cents, provider) ==
  [student_user_id |-> student, teacher_user_id |-> teacher, subscription_id |-> 0,
   months |-> months, sessions_per_month |-> spm, amount_cents |-> amount_cents,
   provider |-> provider, status |-> "pending", paid_at |-> 0,
   teacher_earnings_cents |-> 0, platform_fee_cents |-> 0]

create_subscription_checkout(r, actor, teacher, plan, selected_provider, raises) ==
  /\ req[r].pc = "idle"
  /\ Len(payments) < MaxPayments
  /\ LET amount_cents == calc_points_cost(plan[1], plan[2]) * CENTS_PER_POINT
         wanted == resolve_provider(selected_provider)
         provider == IF wanted \in {"stripe", "paypal"} /\ raises THEN "mock" ELSE wanted
     IN IF ~(is_student(actor) \/ is_admin(actor))
        THEN Reply(r, 403, 0, None) /\ UNCHANGED <<db, clock, hist, settings, live>>
        ELSE IF actor = teacher
        THEN Reply(r, 400, 0, None) /\ UNCHANGED <<db, clock, hist, settings, live>>
        ELSE IF \/ selected_provider = "stripe" /\ ~settings.has_stripe
                \/ selected_provider = "paypal" /\ ~settings.has_paypal
        THEN Reply(r, 400, 0, None) /\ UNCHANGED <<db, clock, hist, settings, live>>
        ELSE IF wanted \in {"stripe", "paypal"} /\ raises /\ selected_provider = wanted
        THEN Reply(r, 502, 0, None) /\ UNCHANGED <<db, clock, hist, settings, live>>
        ELSE /\ payments' = Append(payments,
                    NewPayment(actor, teacher, plan[1], plan[2], amount_cents, provider))
             /\ Reply(r, 200, 0, None)
             /\ UNCHANGED <<topups, subs, wallet_ledger, teacher_wallet_ledger, balances,
                            withdrawals, clock, hist, settings, live>>

(* ------------------------ _create_subscription ------------------------- *)
\* starts_at = now; ends_at = now + timedelta(days=30 * months); the clock counts days
NewSubscription(teacher, student, months, spm, now) ==
  [teacher_user_id |-> teacher, student_user_id |-> student, months |-> months,
   sessions_per_month |-> spm, points_cost |-> calc_points_cost(months, spm),
   status |-> "active", starts_at |-> now, ends_at |-> now + DAYS_PER_MONTH * months]

\* where the caller goes on once _create_subscription has returned
AfterSubscription(op) == IF op = "confirm" THEN "audit" ELSE "points_payment"

\* existing = await _active_subscription(...); if existing is not None: return existing
create_subscription_lookup(r) ==
  /\ req[r].pc = "sub_lookup"
  /\ CanFlush(r)
  /\ LET existing == active_subscription(req[r].teacher, req[r].student)
     IN IF Cardinality(existing) > 1
        THEN Fail(r, 500)
        ELSE /\ req' = [req EXCEPT ![r] =
                  IF existing /= {}
                  THEN [@ EXCEPT !.sub = CHOOSE i \in existing : TRUE,
                                 !.pc = AfterSubscription(req[r].op)]
                  ELSE [@ EXCEPT !.pc = IF req[r].charge THEN "sub_balance"
                                        ELSE "sub_commit"]]
             /\ locks' = [locks EXCEPT ![r] = Flushed(r)]
             /\ UNCHANGED <<db, clock, resp, hist, settings, live>>

\* if balance.balance < cost: HTTP 400 "Insufficient points balance"
insufficient_balance_never(balance, cost) == FALSE
insufficient_balance(balance, cost) == balance < cost

\* charge_balance: _ensure_student_balance (which commits a missing row with the
\* default grant), the insufficient-balance check and balance.balance -= cost
create_subscription_charge(r) ==
  /\ req[r].pc = "sub_balance"
  /\ LET student == req[r].student
         cost == calc_points_cost(req[r].months, req[r].sessions_per_month)
     IN IF balances[student] = <<>>
        THEN /\ balances' = [balances EXCEPT ![student] = <<DEFAULT_BALANCE>>]
             /\ UNCHANGED <<payments, topups, subs, wallet_ledger, teacher_wallet_ledger,
                            withdrawals, clock, req, locks, resp, hist, settings, live>>
        ELSE IF insufficient_balance(balances[student][1], cost)
        THEN FailWith(r, 400, "Insufficient points balance")
        ELSE /\ req' = [req EXCEPT ![r].bal = balances[student][1] - cost,
                                   ![r].balBase = balances[student][1],
                                   ![r].pc = "sub_commit"]
             /\ UNCHANGED <<db, clock, locks, resp, hist, settings, live>>

\* db.add(sub); await db.commit(); await db.refresh(sub)
\* uq_teacher_student_status rejects a second active row of the pair.
unique_subscription_violated_never(teacher, student) == FALSE
unique_subscription_violated(teacher, student) ==
  active_subscription(teacher, student) /= {}

create_subscription_commit(r) ==
  /\ req[r].pc = "sub_commit"
  /\ CanFlush(r)
  /\ IF unique_subscription_violated(req[r].teacher, req[r].student)
     THEN Fail(r, 500)
     ELSE /\ payments' = CommittedPayments(r)
          /\ subs' = Append(subs, NewSubscription(req[r].teacher, req[r].student,
                                                  req[r].months, req[r].sessions_per_month,
                                                  clock))
          /\ teacher_wallet_ledger' = teacher_wallet_ledger \o req[r].pendTL
          /\ wallet_ledger' = wallet_ledger \o req[r].pendWL
          /\ balances' = CommittedBalances(r)
          /\ req' = [req EXCEPT ![r] =
                 [AfterCommit(@) EXCEPT !.sub = Len(subs) + 1,
                    !.pc = IF req[r].charge THEN "sub_ledger"
                           ELSE AfterSubscription(req[r].op)]]
          /\ locks' = [locks EXCEPT ![r] = {}]
          /\ UNCHANGED <<topups, withdrawals, clock, resp, hist, settings, live>>

\* if charge_balance: await _record_wallet_ledger(...); await db.commit()
create_subscription_ledger(r) ==
  /\ req[r].pc = "sub_ledger"
  /\ LET cost == calc_points_cost(req[r].months, req[r].sessions_per_month)
         a == [student_user_id |-> req[r].student, direction |-> "debit",
               amount_cents |-> cost * CENTS_PER_POINT, points_delta |-> 0 - cost,
               source |-> "points_subscription", reference_type |-> "subscription",
               reference_id |-> Str(req[r].sub)]
     IN IF WalletLookupRaises(ViewWL(r), a)
        THEN Fail(r, 500)
        ELSE /\ wallet_ledger' = wallet_ledger \o record_wallet_ledger(ViewWL(r), a)
             /\ req' = [req EXCEPT ![r].pc = AfterSubscription(req[r].op)]
             /\ UNCHANGED <<payments, topups, subs, teacher_wallet_ledger, balances,
                            withdrawals, clock, locks, resp, hist, settings, live>>

(* -------------------- confirm_subscription_checkout -------------------- *)
Tokens == 1..MaxPayments

\* row = select(PaymentTransaction).where(checkout_token == ...); 404; 403
confirm_load_any_actor(r, token, actor) ==
  /\ req[r].pc = "idle"
  /\ IF token \notin DOMAIN payments
     THEN Reply(r, 404, 0, None) /\ UNCHANGED <<db, clock, hist, settings, live>>
     ELSE Begin(r,
                [IdleReq EXCEPT !.op = "confirm", !.pc = "provider",
                   !.pid = token, !.row = payments[token], !.base = payments[token],
                   !.student = payments[token].student_user_id,
                   !.teacher = payments[token].teacher_user_id,
                   !.months = payments[token].months,
                   !.sessions_per_month = payments[token].sessions_per_month])

confirm_load(r, token, actor) ==
  /\ req[r].pc = "idle"
  /\ IF token \notin DOMAIN payments
     THEN Reply(r, 404, 0, None) /\ UNCHANGED <<db, clock, hist, settings, live>>
     ELSE IF payments[token].student_user_id /= actor /\ ~is_admin(actor)
     THEN Reply(r, 403, 0, None) /\ UNCHANGED <<db, clock, hist, settings, live>>
     ELSE Begin(r,
                [IdleReq EXCEPT !.op = "confirm", !.pc = "provider",
                   !.pid = token, !.row = payments[token], !.base = payments[token],
                   !.student = payments[token].student_user_id,
                   !.teacher = payments[token].teacher_user_id,
                   !.months = payments[token].months,
                   !.sessions_per_month = payments[token].sessions_per_month])

\* payment_status != "paid" -> HTTP 400
provider_not_paid_lenient(answer) == FALSE
provider_not_paid_ever(answer) == TRUE
provider_not_paid(answer) == answer /= "paid"

MarkPaid(row, now) ==
  [row EXCEPT !.status = "paid", !.paid_at = now,
              !.teacher_earnings_cents = calc_teacher_earnings_cents(row.amount_cents)[1],
              !.platform_fee_cents = calc_teacher_earnings_cents(row.amount_cents)[2]]

\* if row.status != "paid": ask the provider, then mark paid; elif: repair the split
confirm_provider(r, answer) ==
  /\ req[r].op = "confirm" /\ req[r].pc = "provider"
  /\ LET row == req[r].row
         real == row.provider \in {"stripe", "paypal"}
     IN IF row.status /= "paid"
        THEN /\ answer \in (IF real THEN ProviderAnswers ELSE {None})
             /\ IF real /\ answer = "error"
                THEN FailWith(r, 502, answer)
                ELSE IF real /\ provider_not_paid(answer)
                THEN FailWith(r, 400, answer)
                ELSE /\ clock < MaxClock
                     /\ clock' = clock + 1
                     /\ req' = [req EXCEPT ![r].row = MarkPaid(row, clock + 1),
                                           ![r].answer = answer, ![r].pc = "credit"]
                     /\ UNCHANGED <<db, locks, resp, hist, settings, live>>
        ELSE /\ answer = None
             /\ req' = [req EXCEPT ![r].row =
                    IF /\ row.amount_cents > 0 /\ row.teacher_earnings_cents = 0
                       /\ row.platform_fee_cents = 0
                    THEN [row EXCEPT
                      !.teacher_earnings_cents = calc_teacher_earnings_cents(row.amount_cents)[1],
                      !.platform_fee_cents = calc_teacher_earnings_cents(row.amount_cents)[2]]
                    ELSE row,
                  ![r].pc = "credit"]
             /\ UNCHANGED <<db, clock, locks, resp, hist, settings, live>>

TeacherCreditArgs(pid, row) ==
  [teacher_user_id |-> row.teacher_user_id, direction |-> "credit",
   amount_cents |-> Max(row.teacher_earnings_cents, 0), source |-> "course_payment",
   reference_type |-> "payment_transaction", reference_id |-> Str(pid)]

\* The rows _credit_teacher_wallet_from_payment adds, given what its SELECT sees.
credit_teacher_wallet_from_payment_always(view, pid, row) ==
  record_teacher_wallet_ledger_always(view, TeacherCreditArgs(pid, row))
credit_teacher_wallet_from_payment(view, pid, row) ==
  IF Max(row.teacher_earnings_cents, 0) <= 0 THEN <<>>
  ELSE record_teacher_wallet_ledger(view, TeacherCreditArgs(pid, row))

\* if row.status == "paid": await _credit_teacher_wallet_from_payment(...)
confirm_credit(r) ==
  /\ req[r].op = "confirm" /\ req[r].pc = "credit"
  /\ LET row == req[r].row
         selects == row.status = "paid" /\ Max(row.teacher_earnings_cents, 0) > 0
     IN IF ~selects
        THEN /\ req' = [req EXCEPT ![r].pc = "sub_lookup"]
             /\ UNCHANGED <<db, clock, locks, resp, hist, settings, live>>
        ELSE /\ CanFlush(r)
             /\ IF TeacherLookupRaises(ViewTL(r), TeacherCreditArgs(req[r].pid, row))
                THEN Fail(r, 500)
                ELSE /\ req' = [req EXCEPT
                          ![r].pendTL = @ \o credit_teacher_wallet_from_payment(
                                                ViewTL(r), req[r].pid, row),
                          ![r].pc = "sub_lookup"]
                     /\ locks' = [locks EXCEPT ![r] = Flushed(r)]
                     /\ UNCHANGED <<db, clock, resp, hist, settings, live>>

AuditArgs(pid, row) ==
  [student_user_id |-> row.student_user_id, direction |-> "debit",
   amount_cents |-> Max(row.amount_cents, 0), points_delta |-> 0,
   source |-> "subscription_checkout", reference_type |-> "payment_transaction",
   reference_id |-> Str(pid)]

\* row.subscription_id = sub.id; if paid: await _record_wallet_ledger(...)
confirm_audit(r) ==
  /\ req[r].op = "confirm" /\ req[r].pc = "audit"
  /\ LET row == [req[r].row EXCEPT !.subscription_id = req[r].sub]
         linked == [req EXCEPT ![r].row = row]
     IN IF row.status /= "paid"
        THEN /\ req' = [linked EXCEPT ![r].pc = "final"]
             /\ UNCHANGED <<db, clock, locks, resp, hist, settings, live>>
        ELSE /\ (row /= req[r].base) => LockFree(r)
             /\ IF WalletLookupRaises(ViewWL(r), AuditArgs(req[r].pid, row))
                THEN Fail(r, 500)
                ELSE /\ req' = [linked EXCEPT
                          ![r].pendWL = @ \o record_wallet_ledger(ViewWL(r),
                                                 AuditArgs(req[r].pid, row)),
                          ![r].pc = "final"]
                     /\ locks' = [locks EXCEPT ![r] =
                            IF row /= req[r].base THEN @ \cup {RowKey(r)} ELSE @]
                     /\ UNCHANGED <<db, clock, resp, hist, settings, live>>

\* what the caller of a successful confirm has seen: the subscription returned and
\* the payment as refreshed after the commit
ConfirmOut(sub, row) ==
  [sub |-> sub, paid_at |-> row.paid_at,
   teacher_earnings_cents |-> row.teacher_earnings_cents,
   platform_fee_cents |-> row.platform_fee_cents]

\* await db.commit(); refresh; return _to_subscription_out(sub, teacher, student)
confirm_final(r) ==
  /\ req[r].op = "confirm" /\ req[r].pc = "final"
  /\ CanFlush(r)
  /\ ApplyCommit(r)
  /\ Reply(r, 200, req[r].sub, req[r].answer)
  /\ hist' = [hist EXCEPT !.confirmed[req[r].pid] =
        IF @ = <<>> THEN <<ConfirmOut(req[r].sub, payments'[req[r].pid])>>
        ELSE <<@[1], ConfirmOut(req[r].sub, payments'[req[r].pid])>>]
  /\ UNCHANGED <<clock, settings, live>>

(* ---------------------------- interruption ----------------------------- *)
\* The request dies where it stands (the worker is killed, the connection drops,
\* an await raises): nothing of its open transaction is committed.
Interrupt(r) ==
  /\ req[r].pc /= "idle"
  /\ req' = [req EXCEPT ![r] = IdleReq]
  /\ locks' = [locks EXCEPT ![r] = {}]
  /\ hist' = [hist EXCEPT !.midCrash =
        IF /\ req[r].op = "confirm" /\ req[r].pc \in {"audit", "final"}
           /\ payments[req[r].pid].status = "paid"
           /\ payments[req[r].pid].subscription_id = 0
        THEN @ \cup {req[r].pid} ELSE @]
  /\ UNCHANGED <<db, clock, resp, settings, live>>

(* --------------------------- subscribe_teacher ------------------------- *)
\* 400 on self, 403 unless student or admin; an active subscription is returned as is
subscribe_teacher(r, actor, teacher, plan) ==
  /\ req[r].pc = "idle"
  /\ Len(payments) < MaxPayments
  /\ LET existing == active_subscription(teacher, actor)
     IN IF actor = teacher
        THEN Reply(r, 400, 0, None) /\ UNCHANGED <<db, clock, hist, settings, live>>
        ELSE IF ~(is_student(actor) \/ is_admin(actor))
        THEN Reply(r, 403, 0, None) /\ UNCHANGED <<db, clock, hist, settings, live>>
        ELSE IF Cardinality(existing) > 1
        THEN Reply(r, 500, 0, None) /\ UNCHANGED <<db, clock, hist, settings, live>>
        ELSE IF existing /= {}
        THEN /\ Reply(r, 200, CHOOSE i \in existing : TRUE, None)
             /\ UNCHANGED <<db, clock, hist, settings, live>>
        ELSE Begin(r,
                   [IdleReq EXCEPT !.op = "subscribe", !.pc = "sub_lookup",
                      !.student = actor, !.teacher = teacher, !.months = plan[1],
                      !.sessions_per_month = plan[2], !.charge = TRUE])

PointsPayment(sub, sid, now) ==
  LET amount_cents == Max(sub.points_cost, 0) * CENTS_PER_POINT
  IN [student_user_id |-> sub.student_user_id, teacher_user_id |-> sub.teacher_user_id,
      subscription_id |-> sid, months |-> sub.months,
      sessions_per_month |-> sub.sessions_per_month, amount_cents |-> amount_cents,
      provider |-> "wallet_points", status |-> "paid", paid_at |-> now,
      teacher_earnings_cents |-> calc_teacher_earnings_cents(amount_cents)[1],
      platform_fee_cents |-> calc_teacher_earnings_cents(amount_cents)[2]]

\* _record_points_subscription_payment: the paid wallet_points payment of the
\* subscription and the teacher's credit, flushed and committed together
record_points_subscription_payment(r) ==
  /\ req[r].op = "subscribe" /\ req[r].pc = "points_payment"
  /\ LET sid == req[r].sub
         existing == {p \in DOMAIN payments : /\ payments[p].subscription_id = sid
                                               /\ payments[p].provider = "wallet_points"
                                               /\ payments[p].status = "paid"}
         pid == Len(payments) + 1
         row == PointsPayment(subs[sid], sid, clock + 1)
     IN IF Cardinality(existing) > 1
        THEN Fail(r, 500)
        ELSE IF existing /= {}
        THEN Reply(r, 200, sid, None) /\ UNCHANGED <<db, clock, hist, settings, live>>
        ELSE /\ Len(payments) < MaxPayments
             /\ clock < MaxClock
             /\ clock' = clock + 1
             /\ payments' = Append(payments, row)
             /\ teacher_wallet_ledger' = teacher_wallet_ledger \o
                   credit_teacher_wallet_from_payment(teacher_wallet_ledger, pid, row)
             /\ Reply(r, 200, sid, None)
             /\ UNCHANGED <<topups, subs, wallet_ledger, balances, withdrawals, hist, settings, live>>

(* -------------------- create_wallet_topup_checkout --------------------- *)
TopupAmounts == {250}

NewTopup(student, amount_cents, provider) ==
  [student_user_id |-> student, amount_cents |-> amount_cents, provider |-> provider,
   status |-> "pending", paid_at |-> 0]

create_wallet_topup_checkout(r, actor, student, amount_cents, selected_provider, raises) ==
  /\ req[r].pc = "idle"
  /\ Len(topups) < MaxTopups
  /\ LET wanted == resolve_provider(selected_provider)
         provider == IF wanted \in {"stripe", "paypal"} /\ raises THEN "mock" ELSE wanted
     IN IF ~ensure_self_or_admin(actor, student)
        THEN Reply(r, 403, 0, None) /\ UNCHANGED <<db, clock, hist, settings, live>>
        ELSE IF ~(is_student(student) \/ is_admin(actor))
        THEN Reply(r, 403, 0, None) /\ UNCHANGED <<db, clock, hist, settings, live>>
        ELSE IF \/ selected_provider = "stripe" /\ ~settings.has_stripe
                \/ selected_provider = "paypal" /\ ~settings.has_paypal
        THEN Reply(r, 400, 0, None) /\ UNCHANGED <<db, clock, hist, settings, live>>
        ELSE IF wanted \in {"stripe", "paypal"} /\ raises /\ selected_provider = wanted
        THEN Reply(r, 502, 0, None) /\ UNCHANGED <<db, clock, hist, settings, live>>
        ELSE /\ topups' = Append(topups, NewTopup(student, amount_cents, provider))
             /\ Reply(r, 200, 0, None)
             /\ UNCHANGED <<payments, subs, wallet_ledger, teacher_wallet_ledger, balances,
                            withdrawals, clock, hist, settings, live>>

(* -------------------- confirm_wallet_topup_checkout -------------------- *)
TopupTokens == 1..MaxTopups

\* _ensure_self_or_admin; select the top-up of this student with this token; 404
topup_load(r, student, token, actor) ==
  /\ req[r].pc = "idle"
  /\ IF ~ensure_self_or_admin(actor, student)
     THEN Reply(r, 403, 0, None) /\ UNCHANGED <<db, clock, hist, settings, live>>
     ELSE IF token \notin DOMAIN topups \/ topups[token].student_user_id /= student
     THEN Reply(r, 404, 0, None) /\ UNCHANGED <<db, clock, hist, settings, live>>
     ELSE Begin(r,
                [IdleReq EXCEPT !.op = "topup_confirm", !.pc = "topup_provider",
                   !.pid = token, !.row = topups[token], !.base = topups[token],
                   !.student = student])

\* if tx.status != "paid": ask the provider, then tx.status = "paid", tx.paid_at = now
topup_provider(r, answer) ==
  /\ req[r].op = "topup_confirm" /\ req[r].pc = "topup_provider"
  /\ LET row == req[r].row
         real == row.provider \in {"stripe", "paypal"}
     IN IF row.status /= "paid"
        THEN /\ answer \in (IF real THEN ProviderAnswers ELSE {None})
             /\ IF real /\ answer = "error"
                THEN FailWith(r, 502, answer)
                ELSE IF real /\ provider_not_paid(answer)
                THEN FailWith(r, 400, answer)
                ELSE /\ clock < MaxClock
                     /\ clock' = clock + 1
                     /\ req' = [req EXCEPT ![r].row = [row EXCEPT !.status = "paid",
                                                                  !.paid_at = clock + 1],
                                           ![r].answer = answer, ![r].pc = "topup_balance"]
                     /\ UNCHANGED <<db, locks, resp, hist, settings, live>>
        ELSE /\ answer = None
             /\ req' = [req EXCEPT ![r].pc = "topup_balance"]
             /\ UNCHANGED <<db, clock, locks, resp, hist, settings, live>>

\* balance = await _ensure_student_balance(db, student.id): a missing row is added
\* and committed at once, together with whatever the session holds
topup_balance(r) ==
  /\ req[r].op = "topup_confirm" /\ req[r].pc = "topup_balance"
  /\ CanFlush(r)
  /\ IF balances[req[r].student] = <<>>
     THEN /\ topups' = CommittedTopups(r)
          /\ balances' = [balances EXCEPT ![req[r].student] = <<DEFAULT_BALANCE>>]
          /\ req' = [req EXCEPT ![r] = AfterCommit(@)]
          /\ locks' = [locks EXCEPT ![r] = {}]
          /\ UNCHANGED <<payments, subs, wallet_ledger, teacher_wallet_ledger, withdrawals,
                         clock, resp, hist, settings, live>>
     ELSE /\ req' = [req EXCEPT ![r].bal = balances[req[r].student][1],
                                ![r].balBase = balances[req[r].student][1],
                                ![r].pc = "topup_credit"]
          /\ locks' = [locks EXCEPT ![r] = Flushed(r)]
          /\ UNCHANGED <<db, clock, resp, hist, settings, live>>

TopupCreditArgs_unreferenced(tid, row, points) ==
  [student_user_id |-> row.student_user_id, direction |-> "credit",
   amount_cents |-> Max(row.amount_cents, 0), points_delta |-> points,
   source |-> "wallet_topup", reference_type |-> "wallet_topup_transaction",
   reference_id |-> None]
TopupCreditArgs(tid, row, points) ==
  [student_user_id |-> row.student_user_id, direction |-> "credit",
   amount_cents |-> Max(row.amount_cents, 0), points_delta |-> points,
   source |-> "wallet_topup", reference_type |-> "wallet_topup_transaction",
   reference_id |-> Str(tid)]

\* existing_credit lookup; if None: balance.balance += points and the ledger row
topup_credit(r) ==
  /\ req[r].op = "topup_confirm" /\ req[r].pc = "topup_credit"
  /\ CanFlush(r)
  /\ LET row == req[r].row
         points == points_from_cents(row.amount_cents)
         a == TopupCreditArgs(req[r].pid, row, points)
         existing == SelectIdx(ViewWL(r), LAMBDA x : WalletKeyMatch(x, a))
     IN IF Cardinality(existing) > 1
        THEN Fail(r, 500)
        ELSE /\ req' = [req EXCEPT
                  ![r].bal = IF existing = {} THEN @ + points ELSE @,
                  ![r].pendWL = IF existing = {} THEN @ \o record_wallet_ledger(ViewWL(r), a)
                                ELSE @,
                  ![r].pc = "topup_final"]
             /\ locks' = [locks EXCEPT ![r] =
                    Flushed(r) \cup (IF existing = {} /\ points /= 0 THEN {BalKey(r)} ELSE {})]
             /\ \A o \in Slots \ {r} : existing = {} /\ points /= 0 => BalKey(r) \notin locks[o]
             /\ UNCHANGED <<db, clock, resp, hist, settings, live>>

\* topup_credit as the two awaits it is made of when another request runs between
\* them: the existing_credit SELECT (its autoflush sends the transaction UPDATE) ...
topup_existing_credit(r) ==
  /\ req[r].op = "topup_confirm" /\ req[r].pc = "topup_credit"
  /\ CanFlush(r)
  /\ LET row == req[r].row
         a == TopupCreditArgs(req[r].pid, row, points_from_cents(row.amount_cents))
         existing == SelectIdx(ViewWL(r), LAMBDA x : WalletKeyMatch(x, a))
     IN IF Cardinality(existing) > 1
        THEN Fail(r, 500)
        ELSE /\ req' = [req EXCEPT ![r].charge = (existing = {}), ![r].pc = "topup_record"]
             /\ locks' = [locks EXCEPT ![r] = Flushed(r)]
             /\ UNCHANGED <<db, clock, resp, hist, settings, live>>

\* ... then balance.balance += points and _record_wallet_ledger, whose own SELECT
\* first flushes the balance UPDATE and so waits for the row lock
topup_record(r) ==
  /\ req[r].op = "topup_confirm" /\ req[r].pc = "topup_record"
  /\ CanFlush(r)
  /\ LET row == req[r].row
         points == points_from_cents(row.amount_cents)
         a == TopupCreditArgs(req[r].pid, row, points)
         charged == req[r].charge /\ points /= 0
     IN /\ charged => \A o \in Slots \ {r} : BalKey(r) \notin locks[o]
        /\ req' = [req EXCEPT
                  ![r].bal = IF req[r].charge THEN @ + points ELSE @,
                  ![r].pendWL = IF req[r].charge THEN @ \o record_wallet_ledger(ViewWL(r), a)
                                ELSE @,
                  ![r].charge = FALSE,
                  ![r].pc = "topup_final"]
        /\ locks' = [locks EXCEPT ![r] = Flushed(r) \cup (IF charged THEN {BalKey(r)} ELSE {})]
        /\ UNCHANGED <<db, clock, resp, hist, settings, live>>

\* await db.commit(); return the checkout
topup_final(r) ==
  /\ req[r].op = "topup_confirm" /\ req[r].pc = "topup_final"
  /\ CanFlush(r)
  /\ ApplyCommit(r)
  /\ Reply(r, 200, 0, req[r].answer)
  /\ UNCHANGED <<clock, hist, settings, live>>

(* ------------- _sync_teacher_wallet_from_paid_transactions ------------- *)
\* the split the sync gives a paid row that carries none
RepairSplit(row) ==
  IF row.teacher_earnings_cents <= 0 /\ row.amount_cents > 0
  THEN [row EXCEPT !.teacher_earnings_cents = calc_teacher_earnings_cents(row.amount_cents)[1],
                   !.platform_fee_cents = calc_teacher_earnings_cents(row.amount_cents)[2]]
  ELSE row

\* the credits the loop adds for the paid rows with id >= pid, in id order
RECURSIVE SyncCredits(_, _, _)
SyncCredits(view, teacher, pid) ==
  IF pid > Len(payments) THEN <<>>
  ELSE IF payments[pid].teacher_user_id /= teacher \/ payments[pid].status /= "paid"
  THEN SyncCredits(view, teacher, pid + 1)
  ELSE LET added == credit_teacher_wallet_from_payment(view, pid, RepairSplit(payments[pid]))
       IN added \o SyncCredits(view \o added, teacher, pid + 1)

SyncRaises(view, teacher) ==
  \E pid \in DOMAIN payments :
    /\ payments[pid].teacher_user_id = teacher /\ payments[pid].status = "paid"
    /\ RepairSplit(payments[pid]).teacher_earnings_cents > 0
    /\ TeacherLookupRaises(view, TeacherCreditArgs(pid, RepairSplit(payments[pid])))

\* where the caller goes on once the sync has returned
AfterSync(op) == IF op = "wallet" THEN "wallet_out" ELSE "wd_check"

\* select the teacher's paid rows; repair and credit each of them
sync_teacher_wallet_select(r) ==
  /\ req[r].pc = "sync"
  /\ LET teacher == req[r].teacher
         paid_rows == {pid \in DOMAIN payments : /\ payments[pid].teacher_user_id = teacher
                                                 /\ payments[pid].status = "paid"}
     IN IF paid_rows = {}
        THEN /\ req' = [req EXCEPT ![r].pc = AfterSync(req[r].op)]
             /\ UNCHANGED <<db, clock, locks, resp, hist, settings, live>>
        ELSE IF SyncRaises(ViewTL(r), teacher)
        THEN Fail(r, 500)
        ELSE /\ req' = [req EXCEPT ![r].pendTL = @ \o SyncCredits(ViewTL(r), teacher, 1),
                                   ![r].pc = "sync_commit"]
             /\ UNCHANGED <<db, clock, locks, resp, hist, settings, live>>

\* await db.commit() at the end of the sync
sync_teacher_wallet_commit(r) ==
  /\ req[r].pc = "sync_commit"
  /\ payments' = [pid \in DOMAIN payments |->
        IF payments[pid].teacher_user_id = req[r].teacher /\ payments[pid].status = "paid"
        THEN RepairSplit(payments[pid]) ELSE payments[pid]]
  /\ teacher_wallet_ledger' = teacher_wallet_ledger \o req[r].pendTL
  /\ req' = [req EXCEPT ![r] = [AfterCommit(@) EXCEPT !.pc = AfterSync(req[r].op)]]
  /\ locks' = [locks EXCEPT ![r] = {}]
  /\ UNCHANGED <<topups, subs, wallet_ledger, balances, withdrawals, clock, resp, hist, settings, live>>

(* --------------------------- get_teacher_wallet ------------------------ *)
get_teacher_wallet(r, actor, teacher) ==
  /\ req[r].pc = "idle"
  /\ IF ~ensure_teacher_owner_or_admin(actor, teacher)
     THEN Reply(r, 403, 0, None) /\ UNCHANGED <<db, clock, hist, settings, live>>
     ELSE Begin(r,
                [IdleReq EXCEPT !.op = "wallet", !.pc = "sync", !.teacher = teacher])

\* the sums of the wallet view; available_cents = max(net, 0)
get_teacher_wallet_out(r) ==
  /\ req[r].op = "wallet" /\ req[r].pc = "wallet_out"
  /\ Reply(r, 200, 0, None)
  /\ UNCHANGED <<db, clock, hist, settings, live>>

(* ------------------------ create_teacher_withdrawal -------------------- *)
WithdrawAmounts == {5000}
WITHDRAW_ALLOWED_METHODS == {"paypal", "manual", "bank"}
Email(user) == user \o "@mail"

\* TeacherWithdrawCreateIn: amount_cents: int = Field(ge=100, le=100000000)
withdraw_body_valid_any(amount_cents) == TRUE
withdraw_body_valid(amount_cents) ==
  amount_cents >= MIN_WITHDRAW_CENTS /\ amount_cents <= MAX_WITHDRAW_CENTS

\* The body is validated before the handler runs; the handler starts with
\* _ensure_teacher_owner_or_admin and the sync of the teacher's wallet.
create_teacher_withdrawal(r, actor, teacher, amount_cents, method) ==
  /\ req[r].pc = "idle"
  /\ Len(withdrawals) < MaxWithdrawals
  /\ IF ~withdraw_body_valid(amount_cents)
     THEN Begin(r,
                [IdleReq EXCEPT !.op = "withdraw_create", !.pc = "wd_invalid",
                   !.teacher = teacher, !.amount_cents = amount_cents, !.method = method])
     ELSE IF ~ensure_teacher_owner_or_admin(actor, teacher)
     THEN Reply(r, 403, 0, None) /\ UNCHANGED <<db, clock, hist, settings, live>>
     ELSE Begin(r,
                [IdleReq EXCEPT !.op = "withdraw_create", !.pc = "sync", !.teacher = teacher,
                   !.amount_cents = amount_cents, !.method = method])

\* RequestValidationError: HTTP 422, the handler is not entered
create_teacher_withdrawal_invalid(r) ==
  /\ req[r].op = "withdraw_create" /\ req[r].pc = "wd_invalid"
  /\ FailWith(r, 422, "amount_cents")

NewWithdrawal(teacher, amount_cents, method) ==
  [teacher_user_id |-> teacher, amount_cents |-> amount_cents, method |-> method,
   paypal_email |-> IF method = "paypal" THEN Email(teacher) ELSE None,
   status |-> "pending", admin_note |-> None, external_ref |-> None, processed_at |-> 0]

\* if amount <= 0: 400; if amount > available: 400
withdrawal_refused_never(amount_cents, available) == FALSE
withdrawal_refused(amount_cents, available) == amount_cents <= 0 \/ amount_cents > available

\* method check; available = net of the ledger; 400 unless 0 < amount <= available
create_teacher_withdrawal_check(r) ==
  /\ req[r].op = "withdraw_create" /\ req[r].pc = "wd_check"
  /\ LET available == teacher_wallet_net_cents(ViewTL(r), req[r].teacher)
     IN IF req[r].method \notin WITHDRAW_ALLOWED_METHODS
        THEN Fail(r, 400)
        ELSE IF withdrawal_refused(req[r].amount_cents, available)
        THEN FailWith(r, 400, IF req[r].amount_cents <= 0 THEN "Invalid withdraw amount"
                              ELSE "Insufficient teacher wallet balance")
        ELSE /\ req' = [req EXCEPT ![r].pendWd = <<NewWithdrawal(req[r].teacher,
                                                     req[r].amount_cents, req[r].method)>>,
                                   ![r].pc = "wd_commit"]
             /\ UNCHANGED <<db, clock, locks, resp, hist, settings, live>>

HoldArgs(wid, row) ==
  [teacher_user_id |-> row.teacher_user_id, direction |-> "debit",
   amount_cents |-> row.amount_cents, source |-> "withdraw_request_hold",
   reference_type |-> "withdrawal_request", reference_id |-> Str(wid)]

\* db.add(req); flush; the hold debit keyed by the new id; commit
create_teacher_withdrawal_commit(r) ==
  /\ req[r].op = "withdraw_create" /\ req[r].pc = "wd_commit"
  /\ Len(withdrawals) < MaxWithdrawals
  /\ LET wid == Len(withdrawals) + 1
         a == HoldArgs(wid, req[r].pendWd[1])
     IN IF TeacherLookupRaises(ViewTL(r), a)
        THEN Fail(r, 500)
        ELSE /\ withdrawals' = withdrawals \o req[r].pendWd
             /\ teacher_wallet_ledger' =
                   ViewTL(r) \o record_teacher_wallet_ledger(ViewTL(r), a)
             /\ Reply(r, 200, 0, None)
             /\ UNCHANGED <<payments, topups, subs, wallet_ledger, balances, clock,
                            hist, settings, live>>

(* ------------------------ update_teacher_withdrawal -------------------- *)
WITHDRAW_ALLOWED_STATUSES == {"pending", "processing", "paid", "rejected", "cancelled"}
Finalized == {"paid", "rejected", "cancelled"}
PayoutAnswers == {"ok", "error"}

\* row.status in {"paid", "rejected", "cancelled"} and new_status != row.status
finalized_guard_off(status, new_status) == FALSE
finalized_guard(status, new_status) == status \in Finalized /\ new_status /= status

NeedsPayout(row, new_status) ==
  /\ new_status = "paid" /\ row.status \in {"pending", "processing"}
  /\ row.method = "paypal" /\ ~Truthy(row.external_ref)

\* PATCH /teachers/{teacher}/withdrawals/{wid}: the request arrives with its caller,
\* path and body
update_teacher_withdrawal(r, actor, teacher, wid, new_status, admin_note, external_ref) ==
  /\ req[r].pc = "idle"
  /\ Begin(r, [IdleReq EXCEPT !.op = "withdraw_update", !.pc = "wu_load",
                  !.actor = actor, !.teacher = teacher, !.pid = wid,
                  !.new_status = new_status, !.admin_note = admin_note,
                  !.external_ref = external_ref])

\* the owner check, the request of this teacher loaded, 404, 403, 400; the admin's
\* note and reference
update_teacher_withdrawal_load(r) ==
  /\ req[r].op = "withdraw_update" /\ req[r].pc = "wu_load"
  /\ LET actor == req[r].actor
         wid == req[r].pid
         new_status == req[r].new_status
         found == wid \in DOMAIN withdrawals
                    /\ withdrawals[wid].teacher_user_id = req[r].teacher
         row == withdrawals[wid]
         noted == IF is_admin(actor)
                  THEN [row EXCEPT
                          !.admin_note = IF Truthy(req[r].admin_note)
                                         THEN req[r].admin_note ELSE @,
                          !.external_ref = IF Truthy(req[r].external_ref)
                                           THEN req[r].external_ref ELSE @]
                  ELSE row
     IN IF ~ensure_teacher_owner_or_admin(actor, req[r].teacher)
        THEN FailWith(r, 403, "Only teacher owner or admin can manage this resource")
        ELSE IF ~found
        THEN FailWith(r, 404, "Withdrawal request not found")
        ELSE IF new_status \notin WITHDRAW_ALLOWED_STATUSES
        THEN FailWith(r, 400, "Invalid withdrawal status")
        ELSE IF ~is_admin(actor) /\ actor /= req[r].teacher
        THEN FailWith(r, 403, "Forbidden")
        ELSE IF ~is_admin(actor) /\ new_status /= "cancelled"
        THEN FailWith(r, 403, "Teacher can only cancel withdrawal")
        ELSE IF ~is_admin(actor) /\ row.status /= "pending"
        THEN FailWith(r, 400, "Only pending withdrawal can be cancelled")
        ELSE IF finalized_guard(row.status, new_status)
        THEN FailWith(r, 400, "Finalized withdrawal cannot change status")
        ELSE IF NeedsPayout(noted, new_status) /\ ~Truthy(noted.paypal_email)
        THEN FailWith(r, 400, "PayPal withdrawal needs paypal_email")
        ELSE IF NeedsPayout(noted, new_status) /\ ~settings.has_paypal
        THEN FailWith(r, 400, "PayPal payout is not configured on server")
        ELSE /\ req' = [req EXCEPT
                  ![r].pc = IF NeedsPayout(noted, new_status) THEN "payout" ELSE "reversal",
                  ![r].row = noted, ![r].base = row]
             /\ UNCHANGED <<db, clock, locks, resp, hist, settings, live>>

update_teacher_withdrawal_payout_keeps_note(r, answer) ==
  /\ req[r].op = "withdraw_update" /\ req[r].pc = "payout"
  /\ IF answer = "error"
     THEN /\ withdrawals' = [withdrawals EXCEPT ![req[r].pid] = req[r].row]
          /\ Finish(r, [code |-> 502, sub |-> 0, answer |-> answer])
          /\ UNCHANGED <<payments, topups, subs, wallet_ledger, teacher_wallet_ledger,
                         balances, clock, hist, settings, live>>
     ELSE /\ req' = [req EXCEPT
               ![r].row = [@ EXCEPT !.external_ref = "payout_item",
                             !.admin_note = IF Truthy(@) THEN @ ELSE "PayPal payout status"],
               ![r].answer = answer, ![r].pc = "reversal"]
          /\ UNCHANGED <<db, clock, locks, resp, hist, settings, live>>

\* create_paypal_payout: PaymentProviderError -> 502; else the payout's item id and status
update_teacher_withdrawal_payout(r, answer) ==
  /\ req[r].op = "withdraw_update" /\ req[r].pc = "payout"
  /\ IF answer = "error"
     THEN FailWith(r, 502, answer)
     ELSE /\ req' = [req EXCEPT
               ![r].row = [@ EXCEPT !.external_ref = "payout_item",
                             !.admin_note = IF Truthy(@) THEN @ ELSE "PayPal payout status"],
               ![r].answer = answer, ![r].pc = "reversal"]
          /\ UNCHANGED <<db, clock, locks, resp, hist, settings, live>>

\* the uuid.uuid4().hex[:10] part of a sender_item_id
Nonces == {"a1", "b2"}

\* sender_item_id=f"hb-wd-{row.id}-{uuid.uuid4().hex[:10]}"
sender_item_id(wid, nonce) == <<wid, nonce>>

\* The same call with the provider's side of it: create_paypal_payout posts the
\* payout with sender_batch_id = sender_item_id.  PayPal executes a payout whose
\* sender_batch_id it has not seen and refuses a repeated one; any call may fail.
\* hist.payouts keeps the keys of the payouts PayPal executed.
create_paypal_payout(r, nonce, answer) ==
  /\ req[r].op = "withdraw_update" /\ req[r].pc = "payout"
  /\ LET key == sender_item_id(req[r].pid, nonce)
     IN IF answer = "error" \/ key \in hist.payouts
        THEN FailWith(r, 502, "error")
        ELSE /\ req' = [req EXCEPT
                  ![r].row = [@ EXCEPT !.external_ref = "payout_item",
                                !.admin_note = IF Truthy(@) THEN @ ELSE "PayPal payout status"],
                  ![r].answer = answer, ![r].pc = "reversal"]
             /\ hist' = [hist EXCEPT !.payouts = @ \cup {key}]
             /\ UNCHANGED <<db, clock, locks, resp, settings, live>>

ReversalArgs_of_half(wid, row) ==
  [teacher_user_id |-> row.teacher_user_id, direction |-> "credit",
   amount_cents |-> row.amount_cents \div 2, source |-> "withdraw_request_reversal",
   reference_type |-> "withdrawal_request_reversal", reference_id |-> Str(wid)]
ReversalArgs(wid, row) ==
  [teacher_user_id |-> row.teacher_user_id, direction |-> "credit",
   amount_cents |-> row.amount_cents, source |-> "withdraw_request_reversal",
   reference_type |-> "withdrawal_request_reversal", reference_id |-> Str(wid)]

\* rejected or cancelled from pending or processing: the reversal credit;
\* then row.status = new_status and processed_at stamped or cleared
update_teacher_withdrawal_reversal(r) ==
  /\ req[r].op = "withdraw_update" /\ req[r].pc = "reversal"
  /\ LET row == req[r].row
         new_status == req[r].new_status
         reverses == new_status \in {"rejected", "cancelled"}
                       /\ row.status \in {"pending", "processing"}
         a == ReversalArgs(req[r].pid, row)
         stamps == new_status \in Finalized
     IN /\ reverses => CanFlush(r)
        /\ IF reverses /\ TeacherLookupRaises(ViewTL(r), a)
           THEN Fail(r, 500)
           ELSE /\ stamps => clock < MaxClock
                /\ clock' = IF stamps THEN clock + 1 ELSE clock
                /\ req' = [req EXCEPT
                     ![r].pendTL = IF reverses
                                   THEN @ \o record_teacher_wallet_ledger(ViewTL(r), a) ELSE @,
                     ![r].row = [row EXCEPT !.status = new_status,
                                   !.processed_at = IF stamps THEN clock + 1 ELSE 0],
                     ![r].pc = "wu_commit"]
                /\ locks' = [locks EXCEPT ![r] = IF reverses THEN Flushed(r) ELSE @]
                /\ UNCHANGED <<db, resp, hist, settings, live>>

\* await db.commit(); refresh; return the request
update_teacher_withdrawal_commit(r) ==
  /\ req[r].op = "withdraw_update" /\ req[r].pc = "wu_commit"
  /\ CanFlush(r)
  /\ ApplyCommit(r)
  /\ Reply(r, 200, 0, req[r].answer)
  /\ UNCHANGED <<clock, hist, settings, live>>

(* ----------------------- callers of the ledger store -------------------- *)
References == {<<"payment_transaction", "1">>, <<"payment_transaction", "2">>,
               <<"payment_transaction", "">>, <<None, "1">>}
LedgerAmounts == {100, -50}

WalletArgs ==
  [student_user_id : Students, direction : {"credit", "debit"}, amount_cents : LedgerAmounts,
   points_delta : {0}, source : {"wallet_topup"},
   reference_type : {x[1] : x \in References}, reference_id : {x[2] : x \in References}]

TeacherArgs ==
  [teacher_user_id : Teachers, direction : {"credit", "debit"}, amount_cents : LedgerAmounts,
   source : {"course_payment"},
   reference_type : {x[1] : x \in References}, reference_id : {x[2] : x \in References}]

\* a caller is about to await _record_wallet_ledger / _record_teacher_wallet_ledger
record_call(r, op, a) ==
  /\ req[r].pc = "idle"
  /\ Len(wallet_ledger) + Len(teacher_wallet_ledger) < MaxLedgerRows
  /\ Begin(r, [IdleReq EXCEPT !.op = op, !.pc = "record", !.args = a])

\* the row the call returns: the one its SELECT found, else the one it adds
ReturnedRow(view, matches, added) ==
  IF added = <<>> THEN CHOOSE i \in matches : TRUE ELSE Len(view) + 1

\* await _record_wallet_ledger(db, ...); await db.commit()
record_wallet(r) ==
  /\ req[r].op = "record_wallet" /\ req[r].pc = "record"
  /\ LET a == req[r].args
         added == record_wallet_ledger(ViewWL(r), a)
         matches == SelectIdx(ViewWL(r), LAMBDA row : WalletKeyMatch(row, a))
     IN IF WalletLookupRaises(ViewWL(r), a)
        THEN Fail(r, 500)
        ELSE /\ wallet_ledger' = wallet_ledger \o added
             /\ Reply(r, 200, ReturnedRow(ViewWL(r), matches, added), None)
             /\ UNCHANGED <<payments, topups, subs, teacher_wallet_ledger, balances,
                            withdrawals, clock, hist, settings, live>>

\* await _record_teacher_wallet_ledger(db, ...); await db.commit()
record_teacher_wallet(r) ==
  /\ req[r].op = "record_teacher_wallet" /\ req[r].pc = "record"
  /\ LET a == req[r].args
         added == record_teacher_wallet_ledger(ViewTL(r), a)
         matches == SelectIdx(ViewTL(r), LAMBDA row : TeacherKeyMatch(row, a))
     IN IF TeacherLookupRaises(ViewTL(r), a)
        THEN Fail(r, 500)
        ELSE /\ teacher_wallet_ledger' = teacher_wallet_ledger \o added
             /\ Reply(r, 200, ReturnedRow(ViewTL(r), matches, added), None)
             /\ UNCHANGED <<payments, topups, subs, wallet_ledger, balances,
                            withdrawals, clock, hist, settings, live>>

(* ------------------------------ behaviours ----------------------------- *)
Payers == Students \cup Teachers

\* _create_subscription, shared by confirm_subscription_checkout and subscribe_teacher
SubscriptionStep(r) ==
  \/ create_subscription_lookup(r)
  \/ create_subscription_charge(r)
  \/ create_subscription_commit(r)
  \/ create_subscription_ledger(r)

CheckoutStep(r, selectable) ==
  \/ \E actor \in Payers, teacher \in Teachers, plan \in Plans,
        selected \in selectable, raises \in BOOLEAN :
       create_subscription_checkout(r, actor, teacher, plan, selected, raises)
  \/ \E token \in Tokens, actor \in Users : confirm_load(r, token, actor)
  \/ \E answer \in ProviderAnswers \cup {None} : confirm_provider(r, answer)
  \/ confirm_credit(r)
  \/ confirm_audit(r)
  \/ confirm_final(r)

SubscribeStep(r) ==
  \/ \E actor \in Payers, teacher \in Teachers, plan \in Plans :
       subscribe_teacher(r, actor, teacher, plan)
  \/ record_points_subscription_payment(r)

TopupStep(r) ==
  \/ \E actor \in Users, student \in Students, amount_cents \in TopupAmounts,
        selected \in SelectedProviders, raises \in BOOLEAN :
       create_wallet_topup_checkout(r, actor, student, amount_cents, selected, raises)
  \/ \E student \in Students, token \in TopupTokens, actor \in Users :
       topup_load(r, student, token, actor)
  \/ \E answer \in ProviderAnswers \cup {None} : topup_provider(r, answer)
  \/ topup_balance(r)
  \/ topup_credit(r)
  \/ topup_final(r)

\* The ledger store alone: record calls one after another, each committed.
NextLedger ==
  \/ \E a \in WalletArgs : record_call(1, "record_wallet", a)
  \/ \E a \in TeacherArgs : record_call(1, "record_teacher_wallet", a)
  \/ record_wallet(1)
  \/ record_teacher_wallet(1)

SpecLedger == Init /\ [][NextLedger]_vars

\* Subscriptions bought by checkout or with points; requests served one at a time.
Next ==
  \/ CheckoutStep(1, SelectedProviders)
  \/ SubscribeStep(1)
  \/ SubscriptionStep(1)
  \/ Interrupt(1)

Spec == Init /\ [][Next]_vars

\* Both kinds of checkout transaction; requests served one at a time.
NextTx ==
  \/ CheckoutStep(1, SelectedProviders)
  \/ create_subscription_lookup(1)
  \/ create_subscription_commit(1)
  \/ TopupStep(1)
  \/ Interrupt(1)

SpecTx == Init /\ [][NextTx]_vars

\* The student's points: top-ups and points subscriptions, one request at a time.
NextPoints ==
  \/ TopupStep(1)
  \/ SubscribeStep(1)
  \/ SubscriptionStep(1)
  \/ Interrupt(1)

SpecPoints == Init /\ [][NextPoints]_vars

\* The plans a student asks for: within the grant, minimal, and above the grant.
SubscribePlans == {<<3, 8>>, <<1, 1>>, <<13, 8>>}

\* Points subscriptions of several sizes, top-ups and mock checkouts of the same
\* pair, one request at a time.
NextSubscribe ==
  \/ \E actor \in Payers, teacher \in Teachers, plan \in SubscribePlans :
       subscribe_teacher(1, actor, teacher, plan)
  \/ record_points_subscription_payment(1)
  \/ SubscriptionStep(1)
  \/ TopupStep(1)
  \/ CheckoutStep(1, {"mock"})
  \/ Interrupt(1)

SpecSubscribe == Init /\ [][NextSubscribe]_vars

\* what the callers of the withdrawal endpoints send
WithdrawRequests == {8400, 5000, 1}
AdminNotes == {None, "checked"}
ExternalRefs == {None, "wire-1"}

\* The tables once s1 has paid t1 a mock checkout of 3 months of 8 sessions and
\* confirmed it: the payment paid and linked, the subscription, the teacher's
\* credit of 8400 and the student's audit row.
EarnedPayment ==
  [MarkPaid(NewPayment("s1", "t1", 3, 8, 12000, "mock"), 1) EXCEPT !.subscription_id = 1]

Earned ==
  /\ payments = <<EarnedPayment>>
  /\ topups = <<>>
  /\ subs = <<NewSubscription("t1", "s1", 3, 8, 1)>>
  /\ wallet_ledger = record_wallet_ledger(<<>>, AuditArgs(1, EarnedPayment))
  /\ teacher_wallet_ledger = credit_teacher_wallet_from_payment(<<>>, 1, EarnedPayment)
  /\ balances = [u \in Users |-> <<>>]
  /\ withdrawals = <<>>
  /\ clock = 1
  /\ req = [r \in Slots |-> IdleReq]
  /\ locks = [r \in Slots |-> {}]
  /\ resp = [code |-> 200, sub |-> 1, answer |-> None]
  /\ hist = [confirmed |-> [p \in 1..MaxPayments |->
                               IF p = 1 THEN <<ConfirmOut(1, EarnedPayment)>> ELSE <<>>],
             midCrash |-> {}, payouts |-> {}]

InitEarned == Earned /\ settings = DefaultSettings /\ NoSessions

\* The withdrawal settlement over the earnings of one confirmed payment: requests
\* of several amounts, updates by the teacher, the admin and a stranger, one
\* request at a time.
NextWithdraw ==
  \/ sync_teacher_wallet_select(1)
  \/ sync_teacher_wallet_commit(1)
  \/ \E actor \in Users, teacher \in Teachers, amount_cents \in WithdrawRequests,
        method \in {"paypal", "manual"} :
       create_teacher_withdrawal(1, actor, teacher, amount_cents, method)
  \/ create_teacher_withdrawal_invalid(1)
  \/ create_teacher_withdrawal_check(1)
  \/ create_teacher_withdrawal_commit(1)
  \/ \E actor \in Users, teacher \in Teachers, wid \in 1..MaxWithdrawals,
        new_status \in WITHDRAW_ALLOWED_STATUSES, admin_note \in AdminNotes,
        external_ref \in ExternalRefs :
       update_teacher_withdrawal(1, actor, teacher, wid, new_status, admin_note, external_ref)
  \/ update_teacher_withdrawal_load(1)
  \/ \E answer \in PayoutAnswers : update_teacher_withdrawal_payout(1, answer)
  \/ update_teacher_withdrawal_reversal(1)
  \/ update_teacher_withdrawal_commit(1)
  \/ Interrupt(1)

SpecWithdraw == InitEarned /\ [][NextWithdraw]_vars

\* One withdrawal request and the updates of it by the admin and the owner, two
\* update requests interleaving at their awaits.
NextWithdrawRace ==
  \/ sync_teacher_wallet_select(1)
  \/ sync_teacher_wallet_commit(1)
  \/ create_teacher_withdrawal(1, "t1", "t1", 5000, "paypal")
  \/ create_teacher_withdrawal_check(1)
  \/ create_teacher_withdrawal_commit(1)
  \/ \E r \in Slots :
       \/ \E actor \in Teachers \cup Admins, new_status \in {"processing", "paid", "cancelled"} :
            update_teacher_withdrawal(r, actor, "t1", 1, new_status, None, None)
       \/ update_teacher_withdrawal_load(r)
       \/ \E answer \in PayoutAnswers : update_teacher_withdrawal_payout(r, answer)
       \/ update_teacher_withdrawal_reversal(r)
       \/ update_teacher_withdrawal_commit(r)
       \/ Interrupt(r)

SpecWithdrawRace == InitEarned /\ [][NextWithdrawRace]_vars

\* One paypal withdrawal request and the admin's calls asking 'paid' for it, one at
\* a time; a call may die at any await, the admin then calls again.
NextPayoutRetry ==
  \/ sync_teacher_wallet_select(1)
  \/ sync_teacher_wallet_commit(1)
  \/ \E amount_cents \in {5000, 8400} :
       create_teacher_withdrawal(1, "t1", "t1", amount_cents, "paypal")
  \/ create_teacher_withdrawal_check(1)
  \/ create_teacher_withdrawal_commit(1)
  \/ \E new_status \in {"processing", "paid"}, admin_note \in AdminNotes :
       update_teacher_withdrawal(1, "adm", "t1", 1, new_status, admin_note, None)
  \/ update_teacher_withdrawal_load(1)
  \/ \E nonce \in Nonces, answer \in PayoutAnswers : create_paypal_payout(1, nonce, answer)
  \/ update_teacher_withdrawal_reversal(1)
  \/ update_teacher_withdrawal_commit(1)
  \/ Interrupt(1)

SpecPayoutRetry == InitEarned /\ [][NextPayoutRetry]_vars

\* Two withdrawal requests of t1 in flight together over earnings of 8400: each
\* handler may be at any of its awaits while the other runs.
NextCreateRace ==
  \E r \in Slots :
    \/ \E amount_cents \in {5000, 8400}, method \in {"paypal", "manual"} :
         create_teacher_withdrawal(r, "t1", "t1", amount_cents, method)
    \/ sync_teacher_wallet_select(r)
    \/ sync_teacher_wallet_commit(r)
    \/ create_teacher_withdrawal_check(r)
    \/ create_teacher_withdrawal_commit(r)
    \/ Interrupt(r)

SpecCreateRace == InitEarned /\ [][NextCreateRace]_vars

\* One mock top-up of s1 and its confirmation by two requests in flight together.
NextTopupRace ==
  \/ create_wallet_topup_checkout(1, "s1", "s1", 250, "mock", FALSE)
  \/ \E r \in Slots :
       \/ \E actor \in {"s1", "adm"} : topup_load(r, "s1", 1, actor)
       \/ topup_provider(r, None)
       \/ topup_balance(r)
       \/ topup_existing_credit(r)
       \/ topup_record(r)
       \/ topup_final(r)

SpecTopupRace == Init /\ [][NextTopupRace]_vars

\* a payment paid before the split columns existed: the migration gave it 0 and 0
LegacyPayment(student, teacher, amount_cents) ==
  [NewPayment(student, teacher, 1, 1, amount_cents, "mock") EXCEPT !.status = "paid"]

InitLegacy ==
  /\ \E amount_cents \in 0..MaxLegacyCents :
       payments = <<LegacyPayment("s1", "t1", amount_cents)>>
  /\ topups = <<>>
  /\ subs = <<>>
  /\ wallet_ledger = <<>>
  /\ teacher_wallet_ledger = <<>>
  /\ balances = [u \in Users |-> <<>>]
  /\ withdrawals = <<>>
  /\ clock = 0
  /\ req = [r \in Slots |-> IdleReq]
  /\ locks = [r \in Slots |-> {}]
  /\ resp = NoResp
  /\ hist = [confirmed |-> [p \in 1..MaxPayments |-> <<>>], midCrash |-> {}, payouts |-> {}]
  /\ settings = DefaultSettings /\ NoSessions

\* The three ways a payment gets its split: a confirm, a points subscription and
\* the wallet sync, over a table that starts with one legacy paid row.
NextSplit ==
  \/ CheckoutStep(1, {"mock"})
  \/ SubscribeStep(1)
  \/ SubscriptionStep(1)
  \/ \E actor \in Users, teacher \in Teachers : get_teacher_wallet(1, actor, teacher)
  \/ sync_teacher_wallet_select(1)
  \/ sync_teacher_wallet_commit(1)
  \/ get_teacher_wallet_out(1)
  \/ Interrupt(1)

SpecSplit == InitLegacy /\ [][NextSplit]_vars

WalletStep(r, methods, refs) ==
  \/ sync_teacher_wallet_select(r)
  \/ sync_teacher_wallet_commit(r)
  \/ \E actor \in Users, teacher \in Teachers : get_teacher_wallet(r, actor, teacher)
  \/ get_teacher_wallet_out(r)
  \/ \E actor \in Users, teacher \in Teachers, amount_cents \in WithdrawAmounts,
        method \in methods :
       create_teacher_withdrawal(r, actor, teacher, amount_cents, method)
  \/ create_teacher_withdrawal_check(r)
  \/ create_teacher_withdrawal_commit(r)
  \/ \E actor \in Users, teacher \in Teachers, wid \in 1..MaxWithdrawals,
        new_status \in WITHDRAW_ALLOWED_STATUSES, external_ref \in refs :
       update_teacher_withdrawal(r, actor, teacher, wid, new_status, None, external_ref)
  \/ update_teacher_withdrawal_load(r)
  \/ \E answer \in PayoutAnswers : update_teacher_withdrawal_payout(r, answer)
  \/ update_teacher_withdrawal_reversal(r)
  \/ update_teacher_withdrawal_commit(r)

\* The teacher's wallet: earnings of both kinds, syncs and withdrawals, one request
\* at a time.
NextWallet ==
  \/ CheckoutStep(1, {"mock"})
  \/ SubscribeStep(1)
  \/ SubscriptionStep(1)
  \/ WalletStep(1, {"paypal", "crypto"}, {None})
  \/ Interrupt(1)

SpecWallet == Init /\ [][NextWallet]_vars

\* Requests of two clients interleaving at their awaits.
NextConcurrent ==
  \E r \in Slots :
    \/ CheckoutStep(r, {"mock"})
    \/ SubscribeStep(r)
    \/ SubscriptionStep(r)
    \/ Interrupt(r)

SpecConcurrent == Init /\ [][NextConcurrent]_vars

\* A stripe or paypal checkout of s1 for t1 that was created and is still pending.
InitPending ==
  /\ \E plan \in SubscribePlans, provider \in {"stripe", "paypal"} :
       payments = <<NewPayment("s1", "t1", plan[1], plan[2],
                               calc_points_cost(plan[1], plan[2]) * CENTS_PER_POINT, provider)>>
  /\ topups = <<>>
  /\ subs = <<>>
  /\ wallet_ledger = <<>>
  /\ teacher_wallet_ledger = <<>>
  /\ balances = [u \in Users |-> <<>>]
  /\ withdrawals = <<>>
  /\ clock = 0
  /\ req = [r \in Slots |-> IdleReq]
  /\ locks = [r \in Slots |-> {}]
  /\ resp = NoResp
  /\ hist = [confirmed |-> [p \in 1..MaxPayments |-> <<>>], midCrash |-> {}, payouts |-> {}]
  /\ settings = [DefaultSettings EXCEPT !.has_stripe = TRUE] /\ NoSessions

\* failures do not go on for ever: none once the clock is one step from its bound
InterruptWhileFailing(r) == clock < MaxClock - 1 /\ Interrupt(r)

\* The student's confirms of the pending checkout, one at a time; the provider
\* answers paid, pending or fails, and a request may die at any await.
NextRetry ==
  \/ \E actor \in {"s1", "s2"} : confirm_load(1, 1, actor)
  \/ \E answer \in ProviderAnswers \cup {None} : confirm_provider(1, answer)
  \/ confirm_credit(1)
  \/ create_subscription_lookup(1)
  \/ create_subscription_commit(1)
  \/ confirm_audit(1)
  \/ confirm_final(1)
  \/ InterruptWhileFailing(1)

\* The student keeps retrying (a confirm of s1 arrives whenever none is in flight);
\* the provider asked again and again eventually answers paid; a step of the
\* handler reached again and again eventually runs.
FairRetry ==
  /\ WF_vars(confirm_load(1, 1, "s1"))
  /\ SF_vars(confirm_provider(1, "paid") \/ confirm_provider(1, None))
  /\ SF_vars(confirm_credit(1))
  /\ SF_vars(create_subscription_lookup(1))
  /\ SF_vars(create_subscription_commit(1))
  /\ SF_vars(confirm_audit(1))
  /\ SF_vars(confirm_final(1))

SpecRetryLive == InitPending /\ [][NextRetry]_vars /\ FairRetry

\* The two checkout creations under every configuration of the real providers.
InitProviders ==
  /\ InitDb
  /\ \E stripe \in BOOLEAN, paypal \in BOOLEAN :
       settings = [DefaultSettings EXCEPT !.has_stripe = stripe, !.has_paypal = paypal]
  /\ NoSessions

NextProviders ==
  \/ \E actor \in Users, teacher \in Teachers, plan \in Plans,
        selected \in SelectedProviders, raises \in BOOLEAN :
       create_subscription_checkout(1, actor, teacher, plan, selected, raises)
  \/ \E actor \in Users, student \in Students, amount_cents \in TopupAmounts,
        selected \in SelectedProviders, raises \in BOOLEAN :
       create_wallet_topup_checkout(1, actor, student, amount_cents, selected, raises)

SpecProviders == InitProviders /\ [][NextProviders]_vars

(* ------------------------------ sessions ------------------------------- *)
SessionActors == Users \cup Guests
SessionTeachers == Teachers \cup Admins
SessionKinds == {"live", "course"}
SessionStarts == {100, 200}
SessionDurations == {15, 60}
Instants == {70, 90, 95, 160, 161, 165}
GraceMinutes == {0, 5}

NewSession(teacher, target, kind, status, starts_at, duration_minutes) ==
  [teacher_user_id |-> teacher, target_student_user_id |-> target, kind |-> kind,
   status |-> status, starts_at |-> starts_at, duration_minutes |-> duration_minutes,
   present |-> TRUE]

\* max(int(duration_minutes or 60), 1)
session_minutes(duration_minutes) ==
  Max(IF duration_minutes = 0 THEN DEFAULT_DURATION_MINUTES ELSE duration_minutes, 1)

\* create_teacher_session: status = "scheduled"; for kind "live" ended, live or scheduled
initial_status(kind, starts_at, duration_minutes, t) ==
  IF kind = "live"
  THEN IF t >= starts_at + session_minutes(duration_minutes) THEN "ended"
       ELSE IF t + LIVE_LEAD_MINUTES >= starts_at THEN "live"
       ELSE "scheduled"
  ELSE "scheduled"

refresh_live_status_late(row, t) ==
  IF row.kind /= "live" THEN row
  ELSE LET ends_at == row.starts_at + session_minutes(row.duration_minutes)
       IN IF t > ends_at THEN [row EXCEPT !.status = "ended"]
          ELSE IF t + LIVE_LEAD_MINUTES >= row.starts_at THEN [row EXCEPT !.status = "live"]
          ELSE [row EXCEPT !.status = "scheduled"]

\* _refresh_live_status(row) at now = t
refresh_live_status(row, t) ==
  IF row.kind /= "live" THEN row
  ELSE LET ends_at == row.starts_at + session_minutes(row.duration_minutes)
       IN IF t >= ends_at THEN [row EXCEPT !.status = "ended"]
          ELSE IF t + LIVE_LEAD_MINUTES >= row.starts_at THEN [row EXCEPT !.status = "live"]
          ELSE [row EXCEPT !.status = "scheduled"]

should_prune_ended_live_any_status(row, t) ==
  /\ row.kind = "live"
  /\ row.starts_at + session_minutes(row.duration_minutes)
       <= t - Max(settings.live_session_cleanup_minutes, 0)

\* _should_prune_ended_live(row, now=t)
should_prune_ended_live(row, t) ==
  /\ row.kind = "live"
  /\ row.status = "ended"
  /\ row.starts_at + session_minutes(row.duration_minutes)
       <= t - Max(settings.live_session_cleanup_minutes, 0)

prune_ended_lives_every_teacher(rows, scope, t) ==
  [i \in DOMAIN rows |->
     IF /\ rows[i].present /\ rows[i].kind = "live" /\ rows[i].status = "ended"
        /\ should_prune_ended_live(rows[i], t)
     THEN [rows[i] EXCEPT !.present = FALSE]
     ELSE rows[i]]

\* _prune_ended_lives: the ended live rows of the teachers in scope (of every teacher
\* when the scope is empty) that _should_prune_ended_live selects are deleted
prune_ended_lives(rows, scope, t) ==
  [i \in DOMAIN rows |->
     IF /\ rows[i].present /\ rows[i].kind = "live" /\ rows[i].status = "ended"
        /\ scope = {} \/ rows[i].teacher_user_id \in scope
        /\ should_prune_ended_live(rows[i], t)
     THEN [rows[i] EXCEPT !.present = FALSE]
     ELSE rows[i]]

ensure_session_access_any_subscriber(actor, row) ==
  IF is_admin(actor) \/ actor = row.teacher_user_id THEN None
  ELSE IF active_subscription(row.teacher_user_id, actor) = {}
  THEN "Only subscribed students can access this session"
  ELSE None

\* _ensure_session_access: None when it returns, else the detail of the 403 it raises
ensure_session_access(actor, row) ==
  IF is_admin(actor) \/ actor = row.teacher_user_id THEN None
  ELSE IF row.target_student_user_id /= None
  THEN IF actor /= row.target_student_user_id
       THEN "Session reserved for assigned student"
       ELSE IF active_subscription(row.teacher_user_id, actor) = {}
       THEN "Subscription required"
       ELSE None
  ELSE IF active_subscription(row.teacher_user_id, actor) = {}
  THEN "Only subscribed students can access this session"
  ELSE None

\* _publish_session_event: one ws_manager.publish call on topic session:{id}; an
\* exception of the publisher is logged and swallowed
publish_session_event(sid, event_type, delivered) ==
  <<[type |-> event_type, session_id |-> sid, delivered |-> delivered]>>

after_publish_fatal(code, delivered) == IF delivered THEN code ELSE 500

\* the status code of a handler whose publish call has returned or raised: the
\* except clause around ws_manager.publish logs the exception and goes on
after_publish(code, delivered) == code

\* the response of a session handler; the handler's own tables aside, nothing changes
SessionReply(code, answer) ==
  /\ resp' = [code |-> code, sub |-> 0, answer |-> answer]
  /\ UNCHANGED <<db, clock, req, locks, hist, settings, utc_now>>

SessionFail(code, answer) ==
  /\ SessionReply(code, answer)
  /\ sessions' = sessions /\ published' = <<>>

\* time passes
Tick(t) ==
  /\ t > utc_now
  /\ utc_now' = t
  /\ UNCHANGED <<db, clock, req, locks, resp, hist, settings, sessions, published>>

\* POST /teachers/{teacher}/sessions
create_teacher_session(actor, teacher, kind, starts_at, duration_minutes, student, delivered) ==
  /\ Len(sessions) < MaxSessions
  /\ IF ~ensure_teacher_owner_or_admin(actor, teacher)
     THEN SessionFail(403, "Only teacher owner or admin can manage this resource")
     ELSE IF kind \notin {"live", "course"}
     THEN SessionFail(400, "kind must be 'live' or 'course'")
     ELSE IF student /= None /\ active_subscription(teacher, student) = {}
     THEN SessionFail(400, "Student is not subscribed to this teacher")
     ELSE /\ sessions' = Append(sessions,
                 NewSession(teacher, student, kind,
                            initial_status(kind, starts_at, duration_minutes, utc_now),
                            starts_at, duration_minutes))
          /\ published' = publish_session_event(Len(sessions) + 1, "session.created", delivered)
          /\ SessionReply(after_publish(200, delivered),
                          initial_status(kind, starts_at, duration_minutes, utc_now))

\* _refresh_live_statuses over the selected rows; commit when a status changed
refresh_live_statuses(rows, selected, t) ==
  [i \in DOMAIN rows |-> IF rows[i].present /\ selected[i]
                         THEN refresh_live_status(rows[i], t) ELSE rows[i]]

\* GET /teachers/{teacher}/sessions (the calendar endpoints refresh alike and never prune)
list_teacher_sessions(actor, teacher, include_history, auto_cleanup) ==
  IF ~ensure_teacher_owner_or_admin(actor, teacher)
  THEN SessionFail(403, "Only teacher owner or admin can manage this resource")
  ELSE LET refreshed == refresh_live_statuses(sessions,
                          [i \in DOMAIN sessions |-> sessions[i].teacher_user_id = teacher],
                          utc_now)
       IN /\ sessions' = IF auto_cleanup /\ ~include_history
                         THEN prune_ended_lives(refreshed, {teacher}, utc_now)
                         ELSE refreshed
          /\ published' = <<>>
          /\ SessionReply(200, None)

\* GET /students/{student}/sessions
list_student_sessions(actor, student, include_history, auto_cleanup) ==
  LET teacher_ids == {t \in SessionTeachers : active_subscription(t, student) /= {}}
      refreshed == refresh_live_statuses(sessions,
                     [i \in DOMAIN sessions |->
                        /\ sessions[i].teacher_user_id \in teacher_ids
                        /\ sessions[i].target_student_user_id \in {None, student}],
                     utc_now)
  IN IF ~ensure_self_or_admin(actor, student)
     THEN SessionFail(403, "Forbidden")
     ELSE /\ sessions' = IF teacher_ids = {} THEN sessions
                         ELSE IF auto_cleanup /\ ~include_history
                         THEN prune_ended_lives(refreshed, teacher_ids, utc_now)
                         ELSE refreshed
          /\ published' = <<>>
          /\ SessionReply(200, None)

\* GET /sessions/{id}; GET /sessions/{id}/access checks and refreshes in the same way
get_session(actor, sid) ==
  IF ~(sid \in DOMAIN sessions /\ sessions[sid].present)
  THEN SessionFail(404, "Session not found")
  ELSE IF ensure_session_access(actor, sessions[sid]) /= None
  THEN SessionFail(403, ensure_session_access(actor, sessions[sid]))
  ELSE /\ sessions' = [sessions EXCEPT ![sid] = refresh_live_status(@, utc_now)]
       /\ published' = <<>>
       /\ SessionReply(200, sessions'[sid].status)

\* POST /sessions/{id}/join; the stored meeting_url is never empty in the model
join_live_session(actor, sid, delivered) ==
  IF ~(sid \in DOMAIN sessions /\ sessions[sid].present)
  THEN SessionFail(404, "Session not found")
  ELSE IF ensure_session_access(actor, sessions[sid]) /= None
  THEN SessionFail(403, ensure_session_access(actor, sessions[sid]))
  ELSE /\ sessions' = [sessions EXCEPT ![sid] = refresh_live_status(@, utc_now)]
       /\ published' = publish_session_event(sid, "session.joined", delivered)
       /\ SessionReply(after_publish(200, delivered), sessions'[sid].status)

\* POST /sessions/{id}/access-token: the token row is not part of the model
create_session_access_token(actor, sid) ==
  IF ~(sid \in DOMAIN sessions /\ sessions[sid].present)
  THEN SessionFail(404, "Session not found")
  ELSE IF ensure_session_access(actor, sessions[sid]) /= None
  THEN SessionFail(403, ensure_session_access(actor, sessions[sid]))
  ELSE /\ sessions' = sessions /\ published' = <<>>
       /\ SessionReply(200, "access_token")

\* POST /sessions/{id}/presence: the presence row is not part of the model
record_session_presence(actor, sid, delivered) ==
  IF ~(sid \in DOMAIN sessions /\ sessions[sid].present)
  THEN SessionFail(404, "Session not found")
  ELSE IF ensure_session_access(actor, sessions[sid]) /= None
  THEN SessionFail(403, ensure_session_access(actor, sessions[sid]))
  ELSE /\ sessions' = sessions
       /\ published' = publish_session_event(sid, "session.presence", delivered)
       /\ SessionReply(after_publish(200, delivered), "presence")

can_edit_schedule_any_student(actor, row) ==
  \/ is_admin(actor) \/ actor = row.teacher_user_id
  \/ is_student(actor)

\* can_edit of update_session_schedule
can_edit_schedule(actor, row) ==
  \/ is_admin(actor) \/ actor = row.teacher_user_id
  \/ /\ is_student(actor)
     /\ \/ /\ row.target_student_user_id /= None /\ actor = row.target_student_user_id
           /\ active_subscription(row.teacher_user_id, actor) /= {}
        \/ /\ row.target_student_user_id = None /\ row.kind = "course"
           /\ active_subscription(row.teacher_user_id, actor) /= {}

rescheduled_keeps_status(row, starts_at, duration_minutes, t) ==
  [row EXCEPT !.starts_at = IF starts_at /= <<>> THEN starts_at[1] ELSE @,
              !.duration_minutes = IF duration_minutes /= <<>>
                                   THEN duration_minutes[1] ELSE @]

\* the row update_session_schedule commits; an optional field of the payload is
\* <<value>>, or <<>> when it is absent
rescheduled(row, starts_at, duration_minutes, t) ==
  LET moved == [row EXCEPT
                  !.starts_at = IF starts_at /= <<>> THEN starts_at[1] ELSE @,
                  !.status = IF starts_at /= <<>> /\ row.kind /= "live"
                             THEN "scheduled" ELSE @,
                  !.duration_minutes = IF duration_minutes /= <<>>
                                       THEN duration_minutes[1] ELSE @]
  IN IF row.kind = "live" THEN refresh_live_status(moved, t) ELSE moved

\* PATCH /sessions/{id}/schedule
update_session_schedule(actor, sid, starts_at, duration_minutes, delivered) ==
  IF ~(sid \in DOMAIN sessions /\ sessions[sid].present)
  THEN SessionFail(404, "Session not found")
  ELSE IF ~can_edit_schedule(actor, sessions[sid])
  THEN SessionFail(403, "You cannot edit this schedule")
  ELSE IF starts_at = <<>> /\ duration_minutes = <<>>
  THEN SessionFail(400, "Nothing to update")
  ELSE /\ sessions' = [sessions EXCEPT
                         ![sid] = rescheduled(@, starts_at, duration_minutes, utc_now)]
       /\ published' = publish_session_event(sid, "session.updated", delivered)
       /\ SessionReply(after_publish(200, delivered), sessions'[sid].status)

\* DELETE /sessions/{id} and POST /sessions/{id}/delete
delete_session(actor, sid, delivered) ==
  IF ~(sid \in DOMAIN sessions /\ sessions[sid].present)
  THEN SessionFail(404, "Session not found")
  ELSE IF ~(is_admin(actor) \/ actor = sessions[sid].teacher_user_id)
  THEN SessionFail(403, "Only teacher owner or admin can delete this session")
  ELSE /\ sessions' = [sessions EXCEPT ![sid].present = FALSE]
       /\ published' = publish_session_event(sid, "session.deleted", delivered)
       /\ SessionReply(after_publish(204, delivered), None)

\* the status the worker gives a live row it selected (status scheduled or live)
job_status(row, t) ==
  LET ends_at == row.starts_at + session_minutes(row.duration_minutes)
  IN IF t >= ends_at THEN "ended"
     ELSE IF t + LIVE_LEAD_MINUTES >= row.starts_at THEN "live"
     ELSE "scheduled"

\* the worker's deletion test for a row with kind live and status ended
job_deletes(row, t) ==
  row.starts_at + session_minutes(row.duration_minutes)
    <= t - Max(settings.live_session_cleanup_minutes, 0)

\* arq cron job sync_live_sessions_status_job; it answers no request and publishes
\* nothing, and its run is on record in place of a response
sync_live_sessions_status_job ==
  LET synced == [i \in DOMAIN sessions |->
                   IF /\ sessions[i].present /\ sessions[i].kind = "live"
                      /\ sessions[i].status \in {"scheduled", "live"}
                   THEN [sessions[i] EXCEPT !.status = job_status(sessions[i], utc_now)]
                   ELSE sessions[i]]
  IN /\ sessions' = [i \in DOMAIN synced |->
                       IF /\ synced[i].present /\ synced[i].kind = "live"
                          /\ synced[i].status = "ended"
                          /\ job_deletes(synced[i], utc_now)
                       THEN [synced[i] EXCEPT !.present = FALSE]
                       ELSE synced[i]]
     /\ published' = <<>>
     /\ resp' = [code |-> 0, sub |-> 0, answer |-> "sync_live_sessions_status_job"]
     /\ UNCHANGED <<db, clock, req, locks, hist, settings, utc_now>>

\* The tables before the first session exists: s1 subscribed to t1, s2 subscribed
\* to t1 or not, and the cleanup delay the deployment configures.
InitSessions ==
  /\ payments = <<>> /\ topups = <<>> /\ wallet_ledger = <<>>
  /\ teacher_wallet_ledger = <<>> /\ withdrawals = <<>>
  /\ balances = [u \in Users |-> <<>>]
  /\ subs \in {<<NewSubscription("t1", "s1", 3, 8, 0)>>,
               <<NewSubscription("t1", "s1", 3, 8, 0), NewSubscription("t1", "s2", 3, 8, 0)>>}
  /\ clock = 0
  /\ req = [r \in Slots |-> IdleReq]
  /\ locks = [r \in Slots |-> {}]
  /\ resp = NoResp
  /\ hist = [confirmed |-> [p \in 1..MaxPayments |-> <<>>], midCrash |-> {}, payouts |-> {}]
  /\ \E grace \in GraceMinutes :
       settings = [DefaultSettings EXCEPT !.live_session_cleanup_minutes = grace]
  /\ NoSessions

\* The session endpoints and the cron job, one request at a time, as time passes.
NextSessions ==
  \/ \E t \in Instants : Tick(t)
  \/ \E actor \in SessionActors, teacher \in SessionTeachers, kind \in SessionKinds,
        starts_at \in SessionStarts, duration_minutes \in SessionDurations,
        student \in {None} \cup Students \cup Guests, delivered \in BOOLEAN :
       create_teacher_session(actor, teacher, kind, starts_at, duration_minutes,
                              student, delivered)
  \/ \E actor \in SessionActors, teacher \in SessionTeachers,
        include_history \in BOOLEAN, auto_cleanup \in BOOLEAN :
       list_teacher_sessions(actor, teacher, include_history, auto_cleanup)
  \/ \E actor \in SessionActors, student \in Students \cup Guests,
        include_history \in BOOLEAN, auto_cleanup \in BOOLEAN :
       list_student_sessions(actor, student, include_history, auto_cleanup)
  \/ \E actor \in SessionActors, sid \in 1..MaxSessions : get_session(actor, sid)
  \/ \E actor \in SessionActors, sid \in 1..MaxSessions, delivered \in BOOLEAN :
       join_live_session(actor, sid, delivered)
  \/ \E actor \in SessionActors, sid \in 1..MaxSessions :
       create_session_access_token(actor, sid)
  \/ \E actor \in SessionActors, sid \in 1..MaxSessions, delivered \in BOOLEAN :
       record_session_presence(actor, sid, delivered)
  \/ \E actor \in SessionActors, sid \in 1..MaxSessions,
        starts_at \in {<<>>} \cup {<<t>> : t \in SessionStarts},
        duration_minutes \in {<<>>} \cup {<<d>> : d \in SessionDurations},
        delivered \in BOOLEAN :
       update_session_schedule(actor, sid, starts_at, duration_minutes, delivered)
  \/ sync_live_sessions_status_job

SpecSessions == InitSessions /\ [][NextSessions]_vars

\* The same with sessions deleted by their teacher or an admin.
NextPublish ==
  \/ NextSessions
  \/ \E actor \in SessionActors, sid \in 1..MaxSessions, delivered \in BOOLEAN :
       delete_session(actor, sid, delivered)

SpecPublish == InitSessions /\ [][NextPublish]_vars

(* ------------------- pruning beside a reschedule ----------------------- *)
SessionKey(sid) == <<"teacher_sessions", sid>>
SessionLockFree(r, ids) == \A o \in Slots \ {r}, sid \in ids : SessionKey(sid) \notin locks[o]

\* list_teacher_sessions up to the SELECT of _prune_ended_lives: the refreshed
\* statuses are committed, the ended rows of the teacher are read and the ids of
\* those past the cleanup delay are kept
list_teacher_sessions_select(r, actor, teacher) ==
  /\ req[r].pc = "idle"
  /\ IF ~ensure_teacher_owner_or_admin(actor, teacher)
     THEN FailWith(r, 403, "Only teacher owner or admin can manage this resource")
     ELSE LET refreshed == refresh_live_statuses(sessions,
                             [i \in DOMAIN sessions |-> sessions[i].teacher_user_id = teacher],
                             utc_now)
              ids_to_delete == {i \in DOMAIN refreshed :
                                  /\ refreshed[i].present
                                  /\ refreshed[i].teacher_user_id = teacher
                                  /\ should_prune_ended_live(refreshed[i], utc_now)}
          IN /\ SessionLockFree(r, {i \in DOMAIN sessions : refreshed[i] /= sessions[i]})
             /\ sessions' = refreshed
             /\ published' = <<>>
             /\ IF ids_to_delete = {}
                THEN Reply(r, 200, 0, None)
                ELSE /\ req' = [req EXCEPT ![r] =
                            [IdleReq EXCEPT !.op = "list_sessions", !.pc = "prune_delete",
                                            !.teacher = teacher, !.args = ids_to_delete]]
                     /\ resp' = NoResp
                     /\ UNCHANGED locks
             /\ UNCHANGED <<db, clock, hist, settings, utc_now>>

\* delete(TeacherSession).where(TeacherSession.id.in_(ids_to_delete)); commit
prune_ended_lives_delete(r) ==
  /\ req[r].op = "list_sessions" /\ req[r].pc = "prune_delete"
  /\ SessionLockFree(r, req[r].args)
  /\ sessions' = [i \in DOMAIN sessions |->
                    IF i \in req[r].args THEN [sessions[i] EXCEPT !.present = FALSE]
                    ELSE sessions[i]]
  /\ published' = <<>>
  /\ Reply(r, 200, 0, None)
  /\ UNCHANGED <<db, clock, hist, settings, utc_now>>

\* the worker up to its second SELECT: the new statuses are flushed, not yet
\* committed, and the ids of the ended rows past the cleanup delay are kept
sync_live_sessions_status_select(r) ==
  /\ req[r].pc = "idle"
  /\ LET synced == [i \in DOMAIN sessions |->
                      IF /\ sessions[i].present /\ sessions[i].kind = "live"
                         /\ sessions[i].status \in {"scheduled", "live"}
                      THEN [sessions[i] EXCEPT !.status = job_status(sessions[i], utc_now)]
                      ELSE sessions[i]]
         changed == {i \in DOMAIN sessions : synced[i] /= sessions[i]}
         ids_to_delete == {i \in DOMAIN synced :
                             /\ synced[i].present /\ synced[i].kind = "live"
                             /\ synced[i].status = "ended"
                             /\ job_deletes(synced[i], utc_now)}
     IN /\ SessionLockFree(r, changed)
        /\ IF changed = {} /\ ids_to_delete = {}
           THEN /\ resp' = [code |-> 0, sub |-> 0, answer |-> "sync_live_sessions_status_job"]
                /\ UNCHANGED <<req, locks>>
           ELSE /\ req' = [req EXCEPT ![r] =
                       [IdleReq EXCEPT !.op = "job", !.pc = "job_commit",
                                       !.args = ids_to_delete,
                                       !.pendSub = [i \in DOMAIN synced |-> synced[i].status]]]
                /\ locks' = [locks EXCEPT ![r] = {SessionKey(i) : i \in changed}]
                /\ resp' = NoResp
        /\ UNCHANGED <<db, clock, hist, settings, live>>

\* the worker's DELETE by id and its commit
sync_live_sessions_status_commit(r) ==
  /\ req[r].op = "job" /\ req[r].pc = "job_commit"
  /\ SessionLockFree(r, req[r].args)
  /\ sessions' = [i \in DOMAIN sessions |->
                    IF i \in req[r].args THEN [sessions[i] EXCEPT !.present = FALSE]
                    ELSE IF SessionKey(i) \in locks[r]
                    THEN [sessions[i] EXCEPT !.status = req[r].pendSub[i]]
                    ELSE sessions[i]]
  /\ published' = <<>>
  /\ Finish(r, [code |-> 0, sub |-> 0, answer |-> "sync_live_sessions_status_job"])
  /\ UNCHANGED <<db, clock, hist, settings, utc_now>>

\* update_session_schedule run without a pause; its UPDATE waits while the worker
\* holds the row
update_session_schedule_commit(actor, sid, starts_at, duration_minutes, delivered) ==
  /\ SessionLockFree(0, {sid})
  /\ update_session_schedule(actor, sid, starts_at, duration_minutes, delivered)

\* One live session of t1, its reschedules by the teacher, the teacher's listing
\* and the cron job, the listing and the job interleaving with the rest at the
\* await between their SELECT and their DELETE.
NextPruneRace ==
  \/ \E t \in Instants : Tick(t)
  \/ \E starts_at \in SessionStarts, duration_minutes \in SessionDurations :
       create_teacher_session("t1", "t1", "live", starts_at, duration_minutes, None, TRUE)
  \/ \E starts_at \in {<<t>> : t \in SessionStarts},
        duration_minutes \in {<<>>} \cup {<<d>> : d \in SessionDurations} :
       update_session_schedule_commit("t1", 1, starts_at, duration_minutes, TRUE)
  \/ \E r \in Slots :
       \/ \E actor \in {"t1", "s1"} : list_teacher_sessions_select(r, actor, "t1")
       \/ prune_ended_lives_delete(r)
       \/ sync_live_sessions_status_select(r)
       \/ sync_live_sessions_status_commit(r)

SpecPruneRace == InitSessions /\ [][NextPruneRace]_vars

(* ------------------------------ properties ----------------------------- *)
WalletRows(a) == SelectIdx(wallet_ledger, LAMBDA row : WalletKeyMatch(row, a))
TeacherRows(a) == SelectIdx(teacher_wallet_ledger, LAMBDA row : TeacherKeyMatch(row, a))
Keyed(a) == Truthy(a.reference_type) /\ Truthy(a.reference_id)

\* the teacher's credit rows and the student's audit debit rows of payment p
CreditRows(p) == TeacherRows(TeacherCreditArgs(p, payments[p]))
AuditRows(p) == WalletRows(AuditArgs(p, payments[p]))

\* a step keeps every row of the ledger as it was
Kept(old, new) == Len(new) >= Len(old) /\ \A i \in DOMAIN old : new[i] = old[i]

\* C1: a record call whose key has both reference fields non-empty leaves exactly
\* one row with that key in its ledger; when a row with the key was already there
\* the call returns that row and inserts and modifies nothing.  No call removes or
\* rewrites a row.  Holds for the student ledger and for the teacher ledger.
C1_RecordIsIdempotent ==
  [][ /\ Kept(wallet_ledger, wallet_ledger')
      /\ Kept(teacher_wallet_ledger, teacher_wallet_ledger')
      /\ \A r \in Slots :
           (req[r].pc = "record" /\ req'[r].pc = "idle" /\ Keyed(req[r].args)) =>
             IF req[r].op = "record_wallet"
             THEN LET before == WalletRows(req[r].args)
                      after == SelectIdx(wallet_ledger',
                                         LAMBDA row : WalletKeyMatch(row, req[r].args))
                  IN /\ resp'.code = 200
                     /\ Cardinality(after) = 1
                     /\ resp'.sub \in after
                     /\ before /= {} => wallet_ledger' = wallet_ledger
             ELSE LET before == TeacherRows(req[r].args)
                      after == SelectIdx(teacher_wallet_ledger',
                                         LAMBDA row : TeacherKeyMatch(row, req[r].args))
                  IN /\ resp'.code = 200
                     /\ Cardinality(after) = 1
                     /\ resp'.sub \in after
                     /\ before /= {} => teacher_wallet_ledger' = teacher_wallet_ledger
    ]_vars

\* two keyed rows are in the student ledger and the latest call returned the first
\* of them: a repeated call found its row
C1_RepeatedCallReturnsRow ==
  /\ Len(wallet_ledger) = 2 /\ teacher_wallet_ledger = <<>>
  /\ Keyed(wallet_ledger[1]) /\ Keyed(wallet_ledger[2])
  /\ resp.code = 200 /\ resp.sub = 1

\* C2: once a confirm of a payment has succeeded, a further confirm, run after it,
\* returns the same subscription and leaves the payment's paid_at, earnings and
\* fee as the first confirm left them, with exactly one teacher credit row and
\* exactly one student 'subscription_checkout' debit row for the payment.
C2_SecondConfirmChangesNothing ==
  \A p \in DOMAIN payments :
    Len(hist.confirmed[p]) = 2 =>
      /\ hist.confirmed[p][2] = hist.confirmed[p][1]
      /\ payments[p].paid_at = hist.confirmed[p][1].paid_at
      /\ payments[p].teacher_earnings_cents = hist.confirmed[p][1].teacher_earnings_cents
      /\ payments[p].platform_fee_cents = hist.confirmed[p][1].platform_fee_cents
      /\ Cardinality(CreditRows(p)) = 1
      /\ Cardinality(AuditRows(p)) = 1

\* a payment has been confirmed with success twice
C2_ConfirmedTwice ==
  \E p \in DOMAIN payments : Len(hist.confirmed[p]) = 2 /\ resp.code = 200

\* C3: however the confirms of a token that a checkout created pending interleave,
\* the committed tables never hold more than one teacher credit row nor more than
\* one student audit debit row for the payment.
C3_OneCreditOneAudit ==
  \A p \in DOMAIN payments :
    payments[p].provider /= "wallet_points" =>
      Cardinality(CreditRows(p)) <= 1 /\ Cardinality(AuditRows(p)) <= 1

\* both requests loaded the token while it was pending; one has committed the
\* payment and its credit, the other is about to look the credit up
C3_SecondWriterAfterFirst ==
  \E r \in Slots, o \in Slots :
    /\ r /= o
    /\ req[r].op = "confirm" /\ req[o].op = "confirm" /\ req[r].pid = req[o].pid
    /\ req[r].pc = "credit" /\ req[r].base.status = "pending"
    /\ req[o].pc \in {"audit", "final"}
    /\ payments[req[r].pid].status = "paid"
    /\ Cardinality(CreditRows(req[r].pid)) = 1

\* C4: in every committed state a payment is paid with positive earnings exactly
\* when the teacher's credit row for it exists: the status and the credit are
\* committed together.
C4_PaidIffCredited ==
  \A p \in DOMAIN payments :
    (payments[p].status = "paid" /\ payments[p].teacher_earnings_cents > 0)
      <=> CreditRows(p) /= {}

\* a confirm died after the commit inside _create_subscription: the payment is
\* paid and credited, and not yet linked to its subscription
C4_StateLeftByFailure ==
  \E p \in hist.midCrash :
    /\ req[1].pc = "idle"
    /\ payments[p].status = "paid" /\ payments[p].subscription_id = 0
    /\ CreditRows(p) /= {}

\* C5: requests served one at a time never leave a teacher's ledger balance,
\* credits minus debits, below zero.
C5_TeacherNetNotNegative ==
  \A t \in Teachers : teacher_wallet_net_cents(teacher_wallet_ledger, t) >= 0

\* a withdrawal is held against the earnings of one payment and what is left is
\* less than the next request asks for
C5_HoldLeavesLessThanAsked ==
  /\ Len(withdrawals) = 1 /\ withdrawals[1].status = "pending"
  /\ teacher_wallet_net_cents(teacher_wallet_ledger, "t1") \in 0..4999
  /\ \E i \in DOMAIN teacher_wallet_ledger : teacher_wallet_ledger[i].direction = "debit"

\* C6: no pair of teacher and student ever has two active subscriptions, whatever
\* the interleaving of subscribe_teacher and confirm requests.
C6_OneActiveSubscription ==
  \A t \in Users, s \in Users : Cardinality(active_subscription(t, s)) <= 1

\* two requests raced to insert the pair's subscription: one row is committed and
\* the other request was refused
C6_SecondInsertRefused ==
  /\ resp.code = 500
  /\ Cardinality(active_subscription("t1", "s1")) = 1

\* a transaction row goes on existing; its status changes only from pending to
\* paid; once paid its paid_at stays; a row made by a checkout starts pending
TxMonotone(old, new) ==
  /\ Len(new) >= Len(old)
  /\ \A i \in DOMAIN old :
       /\ new[i].status /= old[i].status =>
            (old[i].status = "pending" /\ new[i].status = "paid")
       /\ old[i].status = "paid" => new[i].paid_at = old[i].paid_at
  /\ \A i \in DOMAIN new \ DOMAIN old :
       new[i].provider = "wallet_points" \/ (new[i].status = "pending" /\ new[i].paid_at = 0)

\* C7: every payment and top-up transaction made by a checkout starts pending, is
\* never deleted, changes status only from pending to paid, and once paid keeps
\* its paid_at whatever confirm comes later.
C7_PaidOnceForGood ==
  [][TxMonotone(payments, payments') /\ TxMonotone(topups, topups')]_vars

\* C8: a stripe or paypal payment becomes paid only by a confirm to which the
\* provider answered 'paid'; on any other answer the confirm ends with HTTP 400
\* (502 when the provider call itself fails) and the committed tables keep the
\* payment pending, unlinked, without credit, audit row or subscription.
C8_PaidOnlyWhenProviderSaysPaid ==
  [][ /\ \A p \in DOMAIN payments :
           (/\ payments[p].provider \in {"stripe", "paypal"}
            /\ payments[p].status = "pending" /\ payments'[p].status = "paid")
             => \E r \in Slots : /\ req[r].op = "confirm" /\ req[r].pid = p
                                 /\ req[r].answer = "paid"
      /\ \A r \in Slots :
           (/\ req[r].op = "confirm" /\ req[r].pc = "provider"
            /\ req[r].row.provider \in {"stripe", "paypal"}
            /\ req[r].row.status = "pending" /\ req'[r] /= req[r])
             => \/ req'[r].pc = "credit" /\ req'[r].answer = "paid"
                \/ /\ req'[r].pc = "idle"
                   /\ db' = db
                   /\ payments[req[r].pid].status = "pending"
                   /\ payments[req[r].pid].subscription_id = 0
                   /\ CreditRows(req[r].pid) = {} /\ AuditRows(req[r].pid) = {}
                   /\ \/ resp'.code = 400 /\ resp'.answer = "pending"
                      \/ resp'.code = 502 /\ resp'.answer = "error"
                      \/ resp' = resp
    ]_vars

\* the provider answered 'pending' to the confirm of a paypal payment, which got 400
C8_ConfirmRefused ==
  /\ resp.code = 400 /\ resp.answer = "pending"
  /\ \E p \in DOMAIN payments : payments[p].provider = "paypal" /\ payments[p].status = "pending"

\* C9: whatever failed or was interrupted before, a confirm that succeeds leaves
\* the payment paid, with exactly one teacher credit, exactly one student audit
\* debit, one active subscription of the pair and subscription_id linked to it.
C9_RetryReachesFinalState ==
  \A p \in DOMAIN payments :
    hist.confirmed[p] /= <<>> =>
      /\ payments[p].status = "paid"
      /\ Cardinality(CreditRows(p)) = 1
      /\ Cardinality(AuditRows(p)) = 1
      /\ active_subscription(payments[p].teacher_user_id, payments[p].student_user_id)
           = {payments[p].subscription_id}

\* a confirm died between the two commits and a later confirm of the token succeeded
C9_SucceededAfterInterruption ==
  \E p \in hist.midCrash : hist.confirmed[p] /= <<>> /\ payments[p].subscription_id /= 0

\* sum of points_delta over the student's ledger rows
RECURSIVE PointsDelta(_, _)
PointsDelta(ledger, student) ==
  IF ledger = <<>> THEN 0
  ELSE (IF Head(ledger).student_user_id = student THEN Head(ledger).points_delta ELSE 0)
         + PointsDelta(Tail(ledger), student)

\* C10: in every committed state a student's balance is the grant of 500 plus the
\* sum of points_delta over the student's ledger rows.
C10_BalanceMatchesLedger ==
  \A s \in Users :
    balances[s] /= <<>> => balances[s][1] = DEFAULT_BALANCE + PointsDelta(wallet_ledger, s)

\* the student's 'points_subscription' debit rows that refer to subscription sid
PointsDebits(ledger, student, sid) ==
  {i \in DOMAIN ledger : /\ ledger[i].student_user_id = student
                         /\ ledger[i].direction = "debit"
                         /\ ledger[i].source = "points_subscription"
                         /\ ledger[i].reference_type = "subscription"
                         /\ ledger[i].reference_id = Str(sid)}

\* C11: a subscribe_teacher that charges takes months x sessions_per_month x 5
\* points off the student's balance, in the commit that creates one subscription
\* with status 'active', points_cost = cost and ends_at = starts_at + 30 x months
\* days; it then writes one 'points_subscription' debit row with points_delta =
\* -cost and reference (subscription, new id); the rest of the request changes
\* neither the balance nor the subscription nor the student's ledger.
C11_SubscribeCharges ==
  [][ \A r \in Slots :
        req[r].op = "subscribe" =>
          LET q == req[r]
              cost == q.months * q.sessions_per_month * 5
              s == q.student
          IN /\ (q.pc = "sub_commit" /\ req'[r].pc = "sub_ledger") =>
                  /\ balances[s] /= <<>> /\ balances'[s] = <<balances[s][1] - cost>>
                  /\ Len(subs') = Len(subs) + 1
                  /\ req'[r].sub = Len(subs')
                  /\ subs'[Len(subs')].status = "active"
                  /\ subs'[Len(subs')].teacher_user_id = q.teacher
                  /\ subs'[Len(subs')].student_user_id = s
                  /\ subs'[Len(subs')].points_cost = cost
                  /\ subs'[Len(subs')].ends_at = subs'[Len(subs')].starts_at + 30 * q.months
                  /\ wallet_ledger' = wallet_ledger
             /\ (q.pc = "sub_ledger" /\ req'[r].pc = "points_payment") =>
                  /\ balances' = balances /\ subs' = subs
                  /\ Len(wallet_ledger') = Len(wallet_ledger) + 1
                  /\ PointsDebits(wallet_ledger', s, q.sub) = {Len(wallet_ledger')}
                  /\ wallet_ledger'[Len(wallet_ledger')].points_delta = 0 - cost
             /\ (q.pc = "points_payment" /\ req'[r].pc = "idle" /\ resp'.code = 200) =>
                  /\ balances' = balances /\ subs' = subs /\ wallet_ledger' = wallet_ledger
                  /\ resp'.sub = q.sub
                  /\ subs[q.sub].status = "active" /\ subs[q.sub].points_cost = cost
                  /\ Cardinality(PointsDebits(wallet_ledger, s, q.sub)) = 1
    ]_vars

\* the student with the grant of 500 has subscribed for 3 months of 8 sessions:
\* cost 120, balance 380, one debit row of -120, the subscription active
C11_Grant500Plan3x8 ==
  /\ req[1].pc = "idle" /\ resp.code = 200 /\ resp.sub = 1
  /\ Len(subs) = 1 /\ subs[1].status = "active" /\ subs[1].points_cost = 120
  /\ subs[1].ends_at = subs[1].starts_at + 90
  /\ balances["s1"] = <<380>>
  /\ Len(wallet_ledger) = 1 /\ wallet_ledger[1].points_delta = -120
  /\ PointsDebits(wallet_ledger, "s1", 1) = {1}
  /\ \E p \in DOMAIN payments : payments[p].provider = "wallet_points"

\* the committed active subscriptions of a pair
ActiveOfPair(teacher, student) ==
  {i \in DOMAIN subs : /\ subs[i].teacher_user_id = teacher
                       /\ subs[i].student_user_id = student
                       /\ subs[i].status = "active"}

\* C12: while the pair has an active subscription, subscribe_teacher starts no
\* charge and answers with that subscription, and _create_subscription, with or
\* without charge_balance, returns it; either leaves the subscriptions, the
\* balances, both ledgers and the payment transactions as they were.  No
\* subscription is ever debited twice.
C12_ExistingSubscriptionReturned ==
  [][ /\ (req' = req /\ resp' /= resp /\ resp'.sub /= 0) =>
           /\ db' = db /\ resp'.code = 200
           /\ resp'.sub \in DOMAIN subs /\ subs[resp'.sub].status = "active"
      /\ \A r \in Slots :
           /\ (req[r].pc = "idle" /\ req'[r].op = "subscribe") =>
                ActiveOfPair(req'[r].teacher, req'[r].student) = {}
           /\ (/\ req[r].pc = "sub_lookup" /\ req'[r].pc \notin {"sub_lookup", "idle"}
               /\ ActiveOfPair(req[r].teacher, req[r].student) /= {}) =>
                /\ db' = db
                /\ req'[r].pc \in {"audit", "points_payment"}
                /\ req'[r].sub \in ActiveOfPair(req[r].teacher, req[r].student)
                /\ req'[r].bal = req[r].bal /\ req'[r].pendWL = req[r].pendWL
                /\ req'[r].pendTL = req[r].pendTL /\ req'[r].pendSub = <<>>
      /\ \A i \in DOMAIN subs' :
           Cardinality(PointsDebits(wallet_ledger', subs'[i].student_user_id, i)) <= 1
    ]_vars

\* two subscribe requests of the pair are past _create_subscription with the same
\* subscription: one created and paid for it, the other was handed the existing row
C12_SecondCallerGotExisting ==
  /\ req[1].op = "subscribe" /\ req[2].op = "subscribe"
  /\ req[1].pc = "points_payment" /\ req[2].pc = "points_payment"
  /\ req[1].sub = 1 /\ req[2].sub = 1
  /\ Len(subs) = 1 /\ balances["s1"] = <<380>>
  /\ Cardinality(PointsDebits(wallet_ledger, "s1", 1)) = 1

\* C13: a charging subscription whose cost is above the student's balance ends
\* with HTTP 400 "Insufficient points balance" and leaves every table as it was:
\* no subscription, no ledger row, no payment, the balance as before.  Requests
\* served one at a time never leave a balance below zero.
C13_InsufficientBalanceRefused ==
  [][ /\ \A r \in Slots :
           LET s == req[r].student
               cost == req[r].months * req[r].sessions_per_month * 5
           IN (/\ req[r].pc = "sub_balance" /\ req[r].charge
               /\ balances[s] /= <<>> /\ balances[s][1] < cost
               /\ req'[r] /= req[r]) =>
                /\ req'[r].pc = "idle" /\ db' = db
                /\ \/ resp' = [code |-> 400, sub |-> 0,
                               answer |-> "Insufficient points balance"]
                   \/ resp' = resp
      /\ \A s \in Users : balances'[s] /= <<>> => balances'[s][1] >= 0
    ]_vars

\* the student holds the grant of 500, asked for 13 months of 8 sessions (520
\* points) and was refused; nothing has been created
C13_RefusedAtGrant ==
  /\ resp = [code |-> 400, sub |-> 0, answer |-> "Insufficient points balance"]
  /\ req[1].pc = "idle"
  /\ balances["s1"] = <<500>>
  /\ subs = <<>> /\ wallet_ledger = <<>> /\ payments = <<>>

\* the student's 'wallet_topup' credit rows that refer to top-up transaction tid
TopupCredits(ledger, student, tid) ==
  {i \in DOMAIN ledger : /\ ledger[i].student_user_id = student
                         /\ ledger[i].direction = "credit"
                         /\ ledger[i].source = "wallet_topup"
                         /\ ledger[i].reference_type = "wallet_topup_transaction"
                         /\ ledger[i].reference_id = Str(tid)}

\* the points of the top-ups of the student that carry a credit row, tid and above
RECURSIVE CreditedTopupPoints(_, _)
CreditedTopupPoints(student, tid) ==
  IF tid > Len(topups) THEN 0
  ELSE (IF /\ topups[tid].student_user_id = student
           /\ TopupCredits(wallet_ledger, student, tid) /= {}
        THEN topups[tid].amount_cents \div 100 ELSE 0)
       + CreditedTopupPoints(student, tid + 1)

\* at most one credit row per top-up, of amount_cents // 100 points, and the
\* balance is the grant plus the points of the credited top-ups
TopupsCounted ==
  /\ \A t \in DOMAIN topups :
       LET rows == TopupCredits(wallet_ledger, topups[t].student_user_id, t)
       IN /\ Cardinality(rows) <= 1
          /\ \A i \in rows : wallet_ledger[i].points_delta = topups[t].amount_cents \div 100
  /\ \A s \in Students :
       balances[s] /= <<>> => balances[s][1] = 500 + CreditedTopupPoints(s, 1)

\* C14: however many confirms of a top-up succeed, one after another, the student
\* holds exactly one 'wallet_topup' credit row for it, with points_delta =
\* amount_cents // 100, and the balance has grown by exactly that many points.
C14_TopupCreditedOnce ==
  [][ /\ TopupsCounted'
      /\ \A r \in Slots :
           (/\ req[r].op = "topup_confirm" /\ req[r].pc = "topup_final"
            /\ req'[r].pc = "idle" /\ resp'.code = 200) =>
             /\ topups'[req[r].pid].status = "paid"
             /\ Cardinality(TopupCredits(wallet_ledger', req[r].student, req[r].pid)) = 1
    ]_vars

\* a confirm of a top-up of 250 cents that was loaded already paid and credited is
\* about to commit: it holds no new row and the balance stays 500 + 2
C14_RepeatedConfirm ==
  /\ req[1].op = "topup_confirm" /\ req[1].pc = "topup_final"
  /\ req[1].base.status = "paid" /\ req[1].pendWL = <<>>
  /\ topups[1].amount_cents = 250
  /\ Cardinality(TopupCredits(wallet_ledger, "s1", 1)) = 1
  /\ balances["s1"] = <<502>> /\ req[1].bal = 502

\* the two parts add up to the amount, neither is negative, and the teacher's
\* part is within half a cent of 70% of the amount
SplitOK(row) ==
  /\ row.teacher_earnings_cents + row.platform_fee_cents = row.amount_cents
  /\ row.teacher_earnings_cents >= 0 /\ row.platform_fee_cents >= 0
  /\ 10 * row.teacher_earnings_cents - 7 * row.amount_cents \in -5..5

\* C15: a payment that a confirm or a points subscription makes paid, or that a
\* confirm or the wallet sync rewrites, carries teacher_earnings_cents +
\* platform_fee_cents = amount_cents, both parts >= 0, the teacher's part being
\* 70% of the amount rounded to an integer; every paid payment that carries a
\* split carries such a one, and a completed sync leaves no paid payment of the
\* teacher without it.
C15_SplitAddsUp ==
  [][ /\ \A p \in DOMAIN payments' :
           payments'[p].status = "paid" =>
             /\ (p \notin DOMAIN payments \/ payments'[p] /= payments[p]) =>
                  SplitOK(payments'[p])
             /\ (\/ payments'[p].teacher_earnings_cents /= 0
                 \/ payments'[p].platform_fee_cents /= 0) => SplitOK(payments'[p])
      /\ \A r \in Slots :
           (req[r].pc \in {"sync", "sync_commit"} /\ req'[r].pc \in {"wallet_out", "wd_check"}) =>
             \A p \in DOMAIN payments' :
               (payments'[p].status = "paid" /\ payments'[p].teacher_user_id = req[r].teacher)
                 => SplitOK(payments'[p])
    ]_vars

\* the legacy payment of 45 cents has been given 31 and 14 (the float product
\* 45 * 0.7 lies below 31.5), and a payment of 12000 cents 8400 and 3600
C15_Split45And12000 ==
  /\ Len(payments) = 2
  /\ payments[1].amount_cents = 45
  /\ payments[1].teacher_earnings_cents = 31 /\ payments[1].platform_fee_cents = 14
  /\ payments[2].status = "paid" /\ payments[2].amount_cents = 12000
  /\ payments[2].teacher_earnings_cents = 8400 /\ payments[2].platform_fee_cents = 3600

\* the teacher's 'withdraw_request_hold' debit rows that refer to request wid
HoldRows(ledger, teacher, wid) ==
  {i \in DOMAIN ledger : /\ ledger[i].teacher_user_id = teacher
                         /\ ledger[i].direction = "debit"
                         /\ ledger[i].source = "withdraw_request_hold"
                         /\ ledger[i].reference_type = "withdrawal_request"
                         /\ ledger[i].reference_id = Str(wid)}

\* credits minus debits of the teacher over the committed ledger
RECURSIVE Available(_, _)
Available(ledger, teacher) ==
  IF ledger = <<>> THEN 0
  ELSE (IF Head(ledger).teacher_user_id /= teacher THEN 0
        ELSE IF Head(ledger).direction = "credit" THEN Head(ledger).amount_cents
        ELSE 0 - Head(ledger).amount_cents)
       + Available(Tail(ledger), teacher)

\* the request of slot r has ended without a response: it was interrupted
Interrupted(r) == req'[r].pc = "idle" /\ resp' = resp /\ db' = db

\* C16 (as the code has it): a withdrawal request below 100 cents is refused with
\* HTTP 422 before the handler runs; one above the teacher's available balance is
\* refused with HTTP 400; either creates no request and no ledger row.  A request
\* of 100 <= amount <= available creates, in one commit, one request with status
\* 'pending' and one 'withdraw_request_hold' debit row that refers to it, so that
\* the available balance goes down by exactly the amount.
C16_WithdrawalHeldOrRefused ==
  [][ \A r \in Slots :
        req[r].op = "withdraw_create" =>
          LET q == req[r]
              available == Available(teacher_wallet_ledger, q.teacher)
          IN /\ (q.pc = "wd_invalid" /\ req'[r] /= q) =>
                  /\ q.amount_cents < 100
                  /\ req'[r].pc = "idle" /\ db' = db
                  /\ resp'.code = 422 \/ resp' = resp
             /\ (q.pc = "wd_check" /\ req'[r] /= q /\ q.amount_cents > available) =>
                  /\ req'[r].pc = "idle" /\ db' = db
                  /\ \/ resp' = [code |-> 400, sub |-> 0,
                                 answer |-> "Insufficient teacher wallet balance"]
                     \/ resp' = resp
             /\ (q.pc = "wd_check" /\ req'[r] /= q /\ q.amount_cents <= available) =>
                  /\ q.amount_cents >= 100
                  /\ req'[r].pc = "wd_commit" \/ Interrupted(r)
             /\ (q.pc = "wd_commit" /\ req'[r] /= q) =>
                  \/ Interrupted(r)
                  \/ /\ resp'.code = 200
                     /\ Len(withdrawals') = Len(withdrawals) + 1
                     /\ \A i \in DOMAIN withdrawals : withdrawals'[i] = withdrawals[i]
                     /\ withdrawals'[Len(withdrawals')].status = "pending"
                     /\ withdrawals'[Len(withdrawals')].amount_cents = q.amount_cents
                     /\ withdrawals'[Len(withdrawals')].teacher_user_id = q.teacher
                     /\ Len(teacher_wallet_ledger') = Len(teacher_wallet_ledger) + 1
                     /\ HoldRows(teacher_wallet_ledger', q.teacher, Len(withdrawals'))
                          = {Len(teacher_wallet_ledger')}
                     /\ Available(teacher_wallet_ledger', q.teacher)
                          = available - q.amount_cents
                     /\ available - q.amount_cents >= 0
                     /\ UNCHANGED <<payments, topups, subs, wallet_ledger, balances>>
    ]_vars

\* the teacher held all of the available 8400 and then asked for more: the second
\* request was refused and the one pending request and its hold are all there is
C16_AllHeldThenRefused ==
  /\ resp = [code |-> 400, sub |-> 0, answer |-> "Insufficient teacher wallet balance"]
  /\ Len(withdrawals) = 1
  /\ withdrawals[1].status = "pending" /\ withdrawals[1].amount_cents = 8400
  /\ HoldRows(teacher_wallet_ledger, "t1", 1) /= {}
  /\ Len(teacher_wallet_ledger) = 2
  /\ Available(teacher_wallet_ledger, "t1") = 0

\* C16 as stated: every request of 0 < amount <= available creates a request
C16_AnyAmountWithinAvailableHeld ==
  [][ \A r \in Slots :
        (/\ req[r].op = "withdraw_create" /\ req'[r].pc = "idle"
         /\ req[r].amount_cents > 0
         /\ req[r].amount_cents <= Available(teacher_wallet_ledger, req[r].teacher)) =>
          \/ Interrupted(r)
          \/ resp'.code = 200 /\ Len(withdrawals') = Len(withdrawals) + 1
    ]_vars

\* C17: the only status changes of a withdrawal request are pending -> processing,
\* paid, rejected, cancelled and processing -> paid, rejected, cancelled; no
\* request goes from processing back to pending.
C17_OnlyListedTransitions ==
  [][ \A w \in DOMAIN withdrawals :
        withdrawals'[w].status /= withdrawals[w].status =>
          \/ /\ withdrawals[w].status = "pending"
             /\ withdrawals'[w].status \in {"processing", "paid", "rejected", "cancelled"}
          \/ /\ withdrawals[w].status = "processing"
             /\ withdrawals'[w].status \in {"paid", "rejected", "cancelled"}
    ]_vars

\* C18 (as the code has it): an update call that asks a paid, rejected or
\* cancelled request for a different status fails and changes nothing: the
\* request row, the teacher ledger and every other table stay as they are and
\* no payout call is started.  An admin gets HTTP 400 'Finalized withdrawal cannot
\* change status'; a caller who is not an admin is refused before that guard,
\* with 403, or with 400 'Only pending withdrawal can be cancelled'.
C18_FinalizedRefusesChange ==
  [][ \A r \in Slots :
        (/\ req[r].op = "withdraw_update" /\ req[r].pc = "wu_load"
         /\ req'[r] /= req[r]
         /\ req[r].pid \in DOMAIN withdrawals
         /\ withdrawals[req[r].pid].teacher_user_id = req[r].teacher
         /\ withdrawals[req[r].pid].status \in Finalized
         /\ req[r].new_status /= withdrawals[req[r].pid].status) =>
          /\ db' = db /\ req'[r].pc = "idle"
          /\ \/ resp' = resp
             \/ IF is_admin(req[r].actor)
                THEN resp' = [code |-> 400, sub |-> 0,
                              answer |-> "Finalized withdrawal cannot change status"]
                ELSE \/ resp'.code = 403
                     \/ resp' = [code |-> 400, sub |-> 0,
                                 answer |-> "Only pending withdrawal can be cancelled"]
    ]_vars

\* an admin asked a cancelled request, whose hold was given back, to become paid
\* and was refused
C18_CancelledAskedPaid ==
  /\ resp = [code |-> 400, sub |-> 0, answer |-> "Finalized withdrawal cannot change status"]
  /\ \E w \in DOMAIN withdrawals :
        withdrawals[w].status = "cancelled" /\ withdrawals[w].processed_at > 0

\* C18 as stated: every such call, whoever makes it, gets the already-finalized error
C18_FinalizedErrorForEveryCaller ==
  [][ \A r \in Slots :
        (/\ req[r].op = "withdraw_update" /\ req[r].pc = "wu_load"
         /\ req'[r] /= req[r]
         /\ req[r].pid \in DOMAIN withdrawals
         /\ withdrawals[req[r].pid].teacher_user_id = req[r].teacher
         /\ withdrawals[req[r].pid].status \in Finalized
         /\ req[r].new_status /= withdrawals[req[r].pid].status) =>
          /\ db' = db /\ req'[r].pc = "idle"
          /\ \/ resp' = resp
             \/ resp' = [code |-> 400, sub |-> 0,
                         answer |-> "Finalized withdrawal cannot change status"]
    ]_vars

\* the teacher ledger's 'withdraw_request_reversal' credit rows of request wid
ReversalRows(ledger, wid) ==
  {i \in DOMAIN ledger : /\ ledger[i].direction = "credit"
                         /\ ledger[i].source = "withdraw_request_reversal"
                         /\ ledger[i].reference_id = Str(wid)}

\* C19, with one request at a time: a change of a request's status to rejected
\* or cancelled from pending or
\* processing adds exactly one 'withdraw_request_reversal' credit row of the
\* request's amount, a change to paid adds no ledger row; a request never has
\* more than one reversal row, and it has one exactly when it is rejected or
\* cancelled; the available balance is what was earned minus the requests that are
\* pending, processing or paid, so that create followed by reject or cancel gives
\* the balance back.
C19_ReversalOnce ==
  [][ /\ \A w \in DOMAIN withdrawals :
           LET old == withdrawals[w]
               new == withdrawals'[w]
               n == Len(teacher_wallet_ledger)
           IN /\ (new.status \in {"rejected", "cancelled"} /\ new.status /= old.status) =>
                   /\ old.status \in {"pending", "processing"}
                   /\ Len(teacher_wallet_ledger') = n + 1
                   /\ SubSeq(teacher_wallet_ledger', 1, n) = teacher_wallet_ledger
                   /\ ReversalRows(teacher_wallet_ledger', w) = {n + 1}
                   /\ teacher_wallet_ledger'[n + 1].amount_cents = old.amount_cents
                   /\ teacher_wallet_ledger'[n + 1].teacher_user_id = old.teacher_user_id
                   /\ Available(teacher_wallet_ledger', old.teacher_user_id)
                        = Available(teacher_wallet_ledger, old.teacher_user_id)
                          + old.amount_cents
              /\ (new.status = "paid" /\ old.status /= "paid") =>
                   teacher_wallet_ledger' = teacher_wallet_ledger
              /\ (new.status \notin {"rejected", "cancelled"} \/ new.status = old.status) =>
                   ReversalRows(teacher_wallet_ledger', w)
                     = ReversalRows(teacher_wallet_ledger, w)
      /\ \A w \in DOMAIN withdrawals' :
           /\ Cardinality(ReversalRows(teacher_wallet_ledger', w)) <= 1
           /\ ReversalRows(teacher_wallet_ledger', w) /= {}
                <=> withdrawals'[w].status \in {"rejected", "cancelled"}
      /\ \A t \in Teachers :
           Available(teacher_wallet_ledger', t)
             = Available(SelectSeq(teacher_wallet_ledger',
                                   LAMBDA row : row.source \notin {"withdraw_request_hold",
                                                                    "withdraw_request_reversal"}), t)
               + Available([w \in DOMAIN withdrawals' |->
                              [teacher_user_id |-> withdrawals'[w].teacher_user_id,
                               direction |-> "debit",
                               amount_cents |->
                                 IF withdrawals'[w].status \in {"pending", "processing", "paid"}
                                 THEN withdrawals'[w].amount_cents ELSE 0]], t)
    ]_vars

\* 8400 earned, 8400 held and the request rejected: one hold row, one reversal
\* row, and all 8400 are available again
C19_RejectedGivesBack ==
  /\ resp.code = 200
  /\ \E w \in DOMAIN withdrawals :
        /\ withdrawals[w].status = "rejected" /\ withdrawals[w].amount_cents = 8400
        /\ Cardinality(ReversalRows(teacher_wallet_ledger, w)) = 1
        /\ Cardinality(HoldRows(teacher_wallet_ledger, "t1", w)) = 1
  /\ Available(teacher_wallet_ledger, "t1") = 8400

C21_PayoutFailureLeavesRequest ==
  [][ \A r \in Slots :
        (req[r].op = "withdraw_update" /\ req'[r] /= req[r]) =>
          LET q == req[r]
              stored == withdrawals[q.pid]
          IN /\ req'[r].pc = "payout" =>
                  /\ q.pc = "wu_load" /\ q.actor \in Admins /\ q.new_status = "paid"
                  /\ stored.status \in {"pending", "processing"}
                  /\ stored.method = "paypal"
                  /\ ~Truthy(stored.external_ref) /\ ~Truthy(q.external_ref)
                  /\ db' = db
             /\ q.pc = "payout" =>
                  /\ db' = db
                  /\ \/ req'[r].pc = "reversal" /\ resp' = resp
                     \/ Interrupted(r)
                     \/ /\ req'[r].pc = "idle"
                        /\ resp' = [code |-> 502, sub |-> 0, answer |-> "error"]
    ]_vars

\* the payout of a processing request failed; the admin's note never reached the
\* stored request
C21_PayoutRefusedAt502 ==
  /\ resp = [code |-> 502, sub |-> 0, answer |-> "error"]
  /\ \A r \in Slots : req[r].pc = "idle"
  /\ \E w \in DOMAIN withdrawals :
        /\ withdrawals[w].status = "processing" /\ withdrawals[w].method = "paypal"
        /\ withdrawals[w].admin_note = None /\ withdrawals[w].external_ref = None
        /\ withdrawals[w].processed_at = 0
        /\ HoldRows(teacher_wallet_ledger, "t1", w) /= {}
        /\ ReversalRows(teacher_wallet_ledger, w) = {}

\* C19: over any sequence of updates a withdrawal request has at most one
\* 'withdraw_request_reversal' credit row.
C19_OneReversalPerRequest ==
  \A w \in DOMAIN withdrawals :
    Cardinality(ReversalRows(teacher_wallet_ledger, w)) <= 1

\* C22: in every committed state a withdrawal request has processed_at set if
\* and only if its status is paid, rejected or cancelled.
C22_ProcessedAtIffTerminal ==
  \A w \in DOMAIN withdrawals :
    withdrawals[w].processed_at /= 0 <=> withdrawals[w].status \in Finalized


\* C23: _refresh_live_status depends only on (kind, status, starts_at,
\* duration_minutes, now). Whenever a join has refreshed a session, a live session
\* has status ended if now >= starts_at + duration, else live if now + 10 minutes >=
\* starts_at, else scheduled, a course session keeps the status it had, and no other
\* column changes; a session that started 61 minutes ago and lasts 60 is ended, one
\* starting in 5 minutes is live, one starting in 30 minutes is scheduled.
C23_RefreshFollowsRule ==
  [][/\ (/\ utc_now' = utc_now /\ resp'.code = 200
         /\ published' /= <<>> /\ published'[1].type = "session.joined") =>
          LET sid == published'[1].session_id
              old == sessions[sid]
              new == sessions'[sid]
          IN /\ old.kind = "live" =>
                  new.status = IF utc_now >= old.starts_at + old.duration_minutes THEN "ended"
                               ELSE IF utc_now + 10 >= old.starts_at THEN "live"
                               ELSE "scheduled"
             /\ old.kind = "course" => new.status = old.status
             /\ new = [old EXCEPT !.status = new.status]
     /\ \A status \in {"scheduled", "live", "ended"} :
          /\ refresh_live_status(NewSession("t1", None, "live", status, 100, 60), 161).status
               = "ended"
          /\ refresh_live_status(NewSession("t1", None, "live", status, 100, 60), 95).status
               = "live"
          /\ refresh_live_status(NewSession("t1", None, "live", status, 100, 60), 70).status
               = "scheduled"
          /\ refresh_live_status(NewSession("t1", None, "course", status, 100, 60), 161).status
               = status
    ]_vars

\* a live session that started at 100 for 60 minutes was joined at 161 and is ended
C23_JoinedAfterTheEnd ==
  /\ resp.code = 200 /\ published /= <<>> /\ published[1].type = "session.joined"
  /\ utc_now = 161
  /\ sessions[1].kind = "live" /\ sessions[1].starts_at = 100
  /\ sessions[1].duration_minutes = 60 /\ sessions[1].status = "ended"

\* C24: for a live session 'ended' is terminal: once the stored status is ended, no
\* step (refresh on read, worker sweep, update_session_schedule) stores live or
\* scheduled for it.
C24_EndedIsTerminal ==
  [][\A i \in DOMAIN sessions :
       (sessions[i].present /\ sessions[i].kind = "live" /\ sessions[i].status = "ended")
         => sessions'[i].status = "ended"]_vars

\* C25: after every successful update_session_schedule the stored status of the
\* session is the one the transition rule gives for its new starts_at and
\* duration_minutes at the time of the update (live: ended, live or scheduled;
\* course: scheduled), whichever field was patched, and the handler has published
\* one session.updated event on the topic of that session.
C25_RescheduledFollowsRule ==
  [][/\ \A i \in DOMAIN sessions :
          (sessions'[i].starts_at /= sessions[i].starts_at
           \/ sessions'[i].duration_minutes /= sessions[i].duration_minutes)
            => /\ resp'.code = 200
               /\ Len(published') = 1
               /\ published'[1].type = "session.updated"
               /\ published'[1].session_id = i
     /\ (/\ utc_now' = utc_now /\ resp'.code = 200
         /\ published' /= <<>> /\ published'[1].type = "session.updated") =>
          LET new == sessions'[published'[1].session_id]
          IN new.status =
               IF new.kind = "live"
               THEN IF utc_now >= new.starts_at + new.duration_minutes THEN "ended"
                    ELSE IF utc_now + 10 >= new.starts_at THEN "live"
                    ELSE "scheduled"
               ELSE "scheduled"
    ]_vars

\* five minutes before its start a live session was rescheduled and is live
C25_RescheduledSoonIsLive ==
  /\ resp.code = 200 /\ published /= <<>> /\ published[1].type = "session.updated"
  /\ utc_now = 95
  /\ sessions[1].kind = "live" /\ sessions[1].starts_at = 100
  /\ sessions[1].status = "live"

\* C26: update_session_schedule changes a session only for an admin, the owning
\* teacher, or a student with an active subscription to the session's teacher who is
\* the assigned target student or acts on an untargeted course session; the request
\* of any other actor on an existing session is answered 403 and leaves starts_at,
\* duration_minutes and status as they were.
C26_OnlyEditorsReschedule ==
  [][\A actor \in SessionActors, sid \in DOMAIN sessions :
       (/\ sessions[sid].present
        /\ ~(resp'.code = 403 /\ sessions' = sessions)
        /\ ~(\/ is_admin(actor)
             \/ actor = sessions[sid].teacher_user_id
             \/ /\ is_student(actor)
                /\ active_subscription(sessions[sid].teacher_user_id, actor) /= {}
                /\ \/ actor = sessions[sid].target_student_user_id
                   \/ /\ sessions[sid].target_student_user_id = None
                      /\ sessions[sid].kind = "course"))
         => \A starts_at \in {<<>>} \cup {<<t>> : t \in SessionStarts},
               duration_minutes \in {<<>>} \cup {<<d>> : d \in SessionDurations},
               delivered \in BOOLEAN :
              ~update_session_schedule(actor, sid, starts_at, duration_minutes, delivered)
    ]_vars

\* with both students subscribed to t1, a request to reschedule t1's untargeted live
\* session was refused
C26_SubscriberRefusedOnLive ==
  /\ resp.code = 403 /\ resp.answer = "You cannot edit this schedule"
  /\ Len(subs) = 2
  /\ sessions[1].present /\ sessions[1].teacher_user_id = "t1"
  /\ sessions[1].kind = "live" /\ sessions[1].target_student_user_id = None

\* C27: _ensure_session_access lets an actor through exactly when the actor is an
\* admin, the session's owning teacher, the target student with an active
\* subscription to the teacher (target set), or any holder of an active subscription
\* to the teacher (target unset). For every other actor the read, the join, the
\* access-token creation and the presence write on an existing session are answered
\* 403; for the actors let through none of them is.
C27_SessionAccessExact ==
  [][\A actor \in SessionActors, sid \in DOMAIN sessions :
       LET row == sessions[sid]
           allowed == \/ is_admin(actor)
                      \/ actor = row.teacher_user_id
                      \/ /\ row.target_student_user_id /= None
                         /\ actor = row.target_student_user_id
                         /\ active_subscription(row.teacher_user_id, actor) /= {}
                      \/ /\ row.target_student_user_id = None
                         /\ active_subscription(row.teacher_user_id, actor) /= {}
           called == \/ get_session(actor, sid)
                     \/ create_session_access_token(actor, sid)
                     \/ \E delivered \in BOOLEAN :
                          \/ join_live_session(actor, sid, delivered)
                          \/ record_session_presence(actor, sid, delivered)
       IN /\ (row.present /\ ~allowed /\ ~(resp'.code = 403 /\ sessions' = sessions))
               => ~called
          /\ (row.present /\ allowed /\ resp'.code /= 200) => ~called
    ]_vars

\* a session reserved for one student was asked for by somebody else
C27_ReservedForAnother ==
  /\ resp.code = 403 /\ resp.answer = "Session reserved for assigned student"
  /\ sessions[1].present /\ sessions[1].target_student_user_id = "s1"

\* C28, with one request at a time: _prune_ended_lives deletes a session only if its
\* kind is live, its status is ended, its teacher is in the requested scope and
\* starts_at + duration + grace minutes <= now; it deletes no course session and no
\* scheduled or live one; a listing called with include_history = true or with
\* auto_cleanup = false deletes nothing. A listing deletes what the prune selects
\* once the listing's own refresh has stored the statuses.
C28_PruneOnlyEndedInScope ==
  [][LET grace == settings.live_session_cleanup_minutes
         due(row) == /\ row.kind = "live"
                     /\ row.starts_at + row.duration_minutes + grace <= utc_now
         gone(i) == sessions[i].present /\ ~sessions'[i].present
     IN /\ \A scope \in (SUBSET SessionTeachers) \ {{}}, i \in DOMAIN sessions :
             prune_ended_lives(sessions, scope, utc_now)[i] /= sessions[i]
               => /\ due(sessions[i]) /\ sessions[i].status = "ended"
                  /\ sessions[i].teacher_user_id \in scope
                  /\ prune_ended_lives(sessions, scope, utc_now)[i]
                       = [sessions[i] EXCEPT !.present = FALSE]
        /\ (\E i \in DOMAIN sessions : gone(i)) =>
             /\ \A actor \in SessionActors, teacher \in SessionTeachers,
                   include_history \in BOOLEAN, auto_cleanup \in BOOLEAN :
                  list_teacher_sessions(actor, teacher, include_history, auto_cleanup)
                    => /\ auto_cleanup /\ ~include_history
                       /\ \A i \in DOMAIN sessions :
                            gone(i) => /\ due(sessions[i])
                                       /\ sessions[i].teacher_user_id = teacher
             /\ \A actor \in SessionActors, student \in Students \cup Guests,
                   include_history \in BOOLEAN, auto_cleanup \in BOOLEAN :
                  list_student_sessions(actor, student, include_history, auto_cleanup)
                    => /\ auto_cleanup /\ ~include_history
                       /\ \A i \in DOMAIN sessions :
                            gone(i) =>
                              /\ due(sessions[i])
                              /\ active_subscription(sessions[i].teacher_user_id,
                                                     student) /= {}
                              /\ \/ sessions[i].status = "ended"
                                 \/ sessions[i].target_student_user_id \in {None, student}
    ]_vars

\* with a cleanup delay of 5 minutes, a listing has deleted the ended live session of
\* t1 at 165, five minutes after its end
C28_ListingPrunedAfterGrace ==
  /\ resp = [code |-> 200, sub |-> 0, answer |-> None]
  /\ settings.live_session_cleanup_minutes = 5 /\ utc_now = 165
  /\ Len(sessions) = 1 /\ ~sessions[1].present
  /\ sessions[1].kind = "live" /\ sessions[1].status = "ended"
  /\ sessions[1].starts_at = 100 /\ sessions[1].duration_minutes = 60

\* C29: the three places that compute the status of a live session agree: for every
\* starts_at, duration_minutes and now, create_teacher_session, _refresh_live_status
\* and the worker sync_live_sessions_status_job choose the same status, and the
\* worker deletes exactly the rows for which _should_prune_ended_live holds. A run of
\* the worker leaves every row as the refresh and the prune test of the handlers
\* would, and a created session has the status a refresh at that instant gives it.
C29_StatusRulesAgree ==
  /\ [](\A starts_at \in SessionStarts, duration_minutes \in SessionDurations,
           t \in Instants \cup {0}, kind \in SessionKinds,
           status \in {"scheduled", "live", "ended"} :
          LET row == NewSession("t1", None, kind, status, starts_at, duration_minutes)
          IN /\ kind = "live" =>
                  /\ initial_status(kind, starts_at, duration_minutes, t)
                       = refresh_live_status(row, t).status
                  /\ job_status(row, t) = refresh_live_status(row, t).status
             /\ should_prune_ended_live(row, t)
                  <=> (kind = "live" /\ status = "ended" /\ job_deletes(row, t)))
  /\ [][
     /\ (utc_now' = utc_now /\ resp'.answer = "sync_live_sessions_status_job") =>
          \A i \in DOMAIN sessions :
            LET synced == IF sessions[i].present /\ sessions[i].status /= "ended"
                          THEN refresh_live_status(sessions[i], utc_now)
                          ELSE sessions[i]
            IN sessions'[i] = IF synced.present /\ should_prune_ended_live(synced, utc_now)
                              THEN [synced EXCEPT !.present = FALSE]
                              ELSE synced
     /\ (/\ utc_now' = utc_now /\ resp'.code = 200
         /\ published' /= <<>> /\ published'[1].type = "session.created") =>
          LET new == sessions'[published'[1].session_id]
          IN new.status = refresh_live_status(new, utc_now).status
    ]_vars

\* with a cleanup delay of 5 minutes the worker ran at 160, the end of the live
\* session: the session is ended and still stored
C29_WorkerEndedAndKept ==
  /\ resp.answer = "sync_live_sessions_status_job"
  /\ utc_now = 160 /\ settings.live_session_cleanup_minutes = 5
  /\ sessions /= <<>> /\ sessions[1].present
  /\ sessions[1].kind = "live" /\ sessions[1].status = "ended"
  /\ sessions[1].starts_at = 100 /\ sessions[1].duration_minutes = 60

\* C30: in create_subscription_checkout and create_wallet_topup_checkout provider
\* 'auto' resolves to the first configured real provider (paypal, then stripe) and to
\* mock when none is configured; when the provider's create call raises
\* PaymentProviderError the request stores a pending mock transaction only if the
\* caller asked for 'auto'; when the caller asked for stripe or paypal the request
\* is answered 502 (unless it was refused before the call) and stores no row; every
\* row the two handlers store is pending.
C30_ProviderResolution ==
  [][LET first == IF settings.has_paypal THEN "paypal"
                  ELSE IF settings.has_stripe THEN "stripe" ELSE "mock"
         expected(selected, raises, stored) ==
           /\ stored.status = "pending"
           /\ selected = "auto" =>
                stored.provider = IF raises /\ first /= "mock" THEN "mock" ELSE first
           /\ selected = "mock" => stored.provider = "mock"
           /\ selected \in {"stripe", "paypal"} =>
                /\ ~raises /\ stored.provider = selected
                /\ selected = "stripe" => settings.has_stripe
                /\ selected = "paypal" => settings.has_paypal
         refused(selected, raises) ==
           (selected \in {"stripe", "paypal"} /\ raises) =>
              /\ payments' = payments /\ topups' = topups
              /\ resp'.code \in {400, 403, 502}
              /\ (resp'.code = 502) <=>
                   (/\ resp'.code \notin {400, 403}
                    /\ selected = "stripe" => settings.has_stripe
                    /\ selected = "paypal" => settings.has_paypal)
     IN \A selected \in SelectedProviders, raises \in BOOLEAN, actor \in Users :
          /\ \A teacher \in Teachers, plan \in Plans :
               create_subscription_checkout(1, actor, teacher, plan, selected, raises) =>
                 /\ refused(selected, raises)
                 /\ payments' /= payments =>
                      /\ Len(payments') = Len(payments) + 1 /\ resp'.code = 200
                      /\ expected(selected, raises, payments'[Len(payments')])
          /\ \A student \in Students, amount_cents \in TopupAmounts :
               create_wallet_topup_checkout(1, actor, student, amount_cents, selected, raises) =>
                 /\ refused(selected, raises)
                 /\ topups' /= topups =>
                      /\ Len(topups') = Len(topups) + 1 /\ resp'.code = 200
                      /\ expected(selected, raises, topups'[Len(topups')])
    ]_vars

\* with stripe configured and paypal not, a checkout was refused with 502 and a
\* top-up fell back to mock
C30_RefusedAndFellBack ==
  /\ resp.code = 502
  /\ settings.has_stripe /\ ~settings.has_paypal
  /\ payments = <<>>
  /\ Len(topups) = 1 /\ topups[1].provider = "mock" /\ topups[1].status = "pending"

\* C31: confirm_subscription_checkout answers 404 when no transaction has the token
\* and 403 when the actor is neither the paying student nor an admin; in both cases
\* the handler ends there, before any provider call, and the transaction, the
\* ledgers, the balances and the subscriptions are as they were.
C31_ConfirmRefusedUntouched ==
  [][\A token \in Tokens, actor \in Users :
       (/\ req[1].pc = "idle"
        /\ \/ token \notin DOMAIN payments
           \/ payments[token].student_user_id /= actor /\ actor \notin Admins
        /\ confirm_load(1, token, actor))
         => /\ resp'.code = IF token \notin DOMAIN payments THEN 404 ELSE 403
            /\ req'[1] = IdleReq
            /\ db' = db
    ]_vars

\* the teacher asked to confirm the pending checkout of a student and got 403
C31_StrangerRefused ==
  /\ resp.code = 403 /\ req[1] = IdleReq
  /\ Len(payments) = 1 /\ payments[1].status = "pending"
  /\ payments[1].provider = "paypal" /\ subs = <<>>

\* C32: a failure of the event publisher never fails the operation that triggered
\* it: when ws_manager.publish raises during a session create, reschedule, join,
\* presence write or delete, the operation answers success and its change of the
\* sessions table is the committed one.
C32_PublishFailureNotFatal ==
  [][(utc_now' = utc_now /\ published' /= <<>> /\ ~published'[1].delivered) =>
       LET sid == published'[1].session_id
           type == published'[1].type
       IN /\ Len(published') = 1
          /\ resp'.code = IF type = "session.deleted" THEN 204 ELSE 200
          /\ type = "session.created" =>
               /\ Len(sessions') = Len(sessions) + 1 /\ sid = Len(sessions')
               /\ sessions'[sid].present
          /\ type = "session.updated" =>
               \E starts_at \in {<<>>} \cup {<<t>> : t \in SessionStarts},
                  duration_minutes \in {<<>>} \cup {<<d>> : d \in SessionDurations} :
                 /\ starts_at /= <<>> \/ duration_minutes /= <<>>
                 /\ starts_at /= <<>> => sessions'[sid].starts_at = starts_at[1]
                 /\ duration_minutes /= <<>> =>
                      sessions'[sid].duration_minutes = duration_minutes[1]
                 /\ sessions' = [sessions EXCEPT
                      ![sid] = rescheduled(@, starts_at, duration_minutes, utc_now)]
          /\ type = "session.joined" =>
               sessions' = [sessions EXCEPT ![sid] = refresh_live_status(@, utc_now)]
          /\ type = "session.presence" => sessions' = sessions
          /\ type = "session.deleted" =>
               /\ sessions[sid].present
               /\ sessions' = [sessions EXCEPT ![sid].present = FALSE]
    ]_vars

\* the publisher raised while a delete was announced; the session is deleted and the
\* answer is 204
C32_DeletedThoughPublishRaised ==
  /\ published /= <<>> /\ published[1].type = "session.deleted"
  /\ ~published[1].delivered
  /\ resp.code = 204 /\ ~sessions[1].present

\* C33: for every interleaving of two concurrent create_teacher_withdrawal requests
\* of one teacher whose amounts are each within the available balance and together
\* exceed it, at most one succeeds: the ledger-derived balance of the teacher is
\* never negative and the pending requests never hold more than was earned.
C33_NoOverdraw ==
  /\ teacher_wallet_net_cents(teacher_wallet_ledger, "t1") >= 0
  /\ \A w1, w2 \in DOMAIN withdrawals :
       (w1 /= w2 /\ withdrawals[w1].status = "pending" /\ withdrawals[w2].status = "pending")
         => withdrawals[w1].amount_cents + withdrawals[w2].amount_cents
              <= EarnedPayment.teacher_earnings_cents

\* C34: for every interleaving of two concurrent confirm_wallet_topup_checkout
\* requests for one top-up, the committed state has at most one wallet_topup credit
\* row for it, and once both requests have answered it has exactly one and the
\* balance of the student has gone up by amount_cents // 100 exactly.
C34_TopupCreditedOnce ==
  LET credits == {i \in DOMAIN wallet_ledger :
                    /\ wallet_ledger[i].source = "wallet_topup"
                    /\ wallet_ledger[i].direction = "credit"
                    /\ wallet_ledger[i].student_user_id = "s1"}
  IN /\ Cardinality(credits) <= 1
     /\ (/\ \A r \in Slots : req[r].pc = "idle"
         /\ topups /= <<>> /\ topups[1].status = "paid")
          => /\ Cardinality(credits) = 1
             /\ balances["s1"] = <<DEFAULT_BALANCE + (topups[1].amount_cents \div 100)>>

\* the race itself: one request committed the credit while the other, which had
\* found no credit row, still stands before its own balance update
C34_SecondPastLookup ==
  \E r \in Slots :
    /\ req[r].op = "topup_confirm" /\ req[r].pc = "topup_record" /\ req[r].charge
    /\ \E i \in DOMAIN wallet_ledger :
         /\ wallet_ledger[i].source = "wallet_topup"
         /\ wallet_ledger[i].reference_id = Str(1)
    /\ balances["s1"] = <<DEFAULT_BALANCE + 2>>

\* C35: for one withdrawal request, whatever sequence of update_teacher_withdrawal
\* calls asks 'paid' for it, a call that died between the provider's acceptance
\* and the commit and its retry included, PayPal executes at most one payout.
C35_OnePayoutPerWithdrawal ==
  \A wid \in 1..MaxWithdrawals :
    Cardinality({key \in hist.payouts : key[1] = wid}) <= 1

\* C36: a subscription that subscribe_teacher answers with has exactly one 'paid'
\* payment of provider 'wallet_points' linked to it and that payment exactly one
\* teacher-wallet credit, also when the request that created the subscription was
\* interrupted before the payment was recorded and the student subscribed again.
C36_SubscriptionPaidOnce ==
  (resp.code = 200 /\ resp.sub \in DOMAIN subs) =>
    LET paid == {p \in DOMAIN payments : /\ payments[p].subscription_id = resp.sub
                                          /\ payments[p].provider = "wallet_points"
                                          /\ payments[p].status = "paid"}
    IN /\ Cardinality(paid) = 1
       /\ \A p \in paid : Cardinality(CreditRows(p)) = 1

\* teacher_earnings_cents summed over the teacher's paid payments with id >= p
\* that have a credit row
RECURSIVE CreditedEarnings(_, _)
CreditedEarnings(teacher, p) ==
  IF p > Len(payments) THEN 0
  ELSE (IF /\ payments[p].teacher_user_id = teacher /\ payments[p].status = "paid"
           /\ CreditRows(p) /= {}
        THEN payments[p].teacher_earnings_cents ELSE 0)
       + CreditedEarnings(teacher, p + 1)

\* amount_cents summed over the teacher's requests with id >= wid that are
\* pending, processing or paid
RECURSIVE HeldOrPaid(_, _)
HeldOrPaid(teacher, wid) ==
  IF wid > Len(withdrawals) THEN 0
  ELSE (IF /\ withdrawals[wid].teacher_user_id = teacher
           /\ withdrawals[wid].status \in {"pending", "processing", "paid"}
        THEN withdrawals[wid].amount_cents ELSE 0)
       + HeldOrPaid(teacher, wid + 1)

\* C37: with requests executed one at a time, in every committed state each
\* teacher's ledger-derived balance is the teacher_earnings_cents of the paid
\* payments that have a credit row minus the amounts of the requests that are
\* pending, processing or paid; every request has exactly one hold debit, every
\* rejected or cancelled request exactly one reversal credit, and no other request
\* has a reversal.
C37_WalletReconciles ==
  /\ \A t \in Teachers :
       teacher_wallet_net_cents(teacher_wallet_ledger, t)
         = CreditedEarnings(t, 1) - HeldOrPaid(t, 1)
  /\ \A wid \in DOMAIN withdrawals :
       /\ Cardinality(HoldRows(teacher_wallet_ledger,
                               withdrawals[wid].teacher_user_id, wid)) = 1
       /\ Cardinality(ReversalRows(teacher_wallet_ledger, wid))
            = IF withdrawals[wid].status \in {"rejected", "cancelled"} THEN 1 ELSE 0

\* a teacher with credited earnings, one request reversed and another one held
C37_ReversedAndHeld ==
  \E a \in DOMAIN withdrawals, b \in DOMAIN withdrawals :
    /\ withdrawals[a].status \in {"rejected", "cancelled"}
    /\ withdrawals[b].status \in {"pending", "processing", "paid"}
    /\ ReversalRows(teacher_wallet_ledger, a) /= {}
    /\ CreditedEarnings(withdrawals[a].teacher_user_id, 1) > 0
    /\ \A r \in Slots : req[r].pc = "idle"

\* the payment is paid, the teacher has its credit and the subscription is linked
ConfirmedFor(p) ==
  /\ payments[p].status = "paid"
  /\ Cardinality(CreditRows(p)) = 1
  /\ payments[p].subscription_id \in active_subscription(payments[p].teacher_user_id,
                                                         payments[p].student_user_id)

\* C38: while the student keeps retrying the confirm of a pending stripe or paypal
\* payment and the provider eventually reports it paid, the payment eventually is
\* 'paid', with the teacher's credit and the link to the subscription, for good.
C38_RetryEventuallyConfirms ==
  (payments[1].status = "pending") ~> []ConfirmedFor(1)

\* the confirm was refused or died on the way, and a later one completed it
C38_ConfirmedAfterFailures ==
  /\ ConfirmedFor(1) /\ 1 \in hist.midCrash
  /\ payments[1].provider \in {"stripe", "paypal"}

\* C39: however a prune by the listing or by the worker interleaves with
\* update_session_schedule, a session is deleted only if, at the moment of the
\* deletion, its stored row has status 'ended' (for the worker: the status it has
\* just flushed) and starts_at + duration + grace <= now; a session rescheduled
\* into the future by a commit that precedes the delete is not deleted.
C39_DeletedOnlyWhenEndedAndDue ==
  [][ \A i \in DOMAIN sessions :
        (sessions[i].present /\ ~sessions'[i].present) =>
          /\ \/ sessions[i].status = "ended"
             \/ \E r \in Slots : /\ req[r].op = "job" /\ SessionKey(i) \in locks[r]
                                  /\ req[r].pendSub[i] = "ended"
          /\ should_prune_ended_live([sessions[i] EXCEPT !.status = "ended"], utc_now)
    ]_vars


====
